---- MODULE Spec2Model ----
(***************************************************************************)
(* A model of the NPHIES mapper service (mapper_service_final.py): the     *)
(* HL7 v2.5.1 segment codec, the ITI-41 ebXML codec, the attachment        *)
(* transport selection and the small normalisers they use.                 *)
(*                                                                         *)
(* Text is modelled as a sequence of atoms.  An atom is a one-character    *)
(* string, or an opaque run of characters none of which any operation of   *)
(* the program looks at (such as "Doe").  Bytes are numbers in 0..255.     *)
(***************************************************************************)
EXTENDS Integers, Sequences, FiniteSets, TLC

VARIABLES
    pc,                \* the operation that produced the current state
    s,                 \* the argument of a utility function
    out,               \* the value a utility function returned
    HL7APY_AVAILABLE,  \* whether the optional conformance checker was imported
    payload,           \* the HL7FullInput of the request
    hl7,               \* what json_to_hl7_full returned, or the error it raised
    hl7apy_log,        \* what the conformance check logged
    parsed,            \* what hl7_full_to_json returned
    obj,               \* the SOAPInput of the request
    xml,               \* what build_iti41_ebxml returned, or its error
    response,          \* the response of /convert/json-to-iti41
    xml_in,            \* the document handed to iti41_xml_to_json
    json               \* what iti41_xml_to_json returned, or its error

vars == <<pc, s, out, HL7APY_AVAILABLE, payload, hl7, hl7apy_log, parsed,
          obj, xml, response, xml_in, json>>

(***************************************************************************)
(* Python values                                                           *)
(***************************************************************************)
\* Python's None where a string is expected (an atom no text contains).
None == <<"<None>">>

\* bool(v) of an Optional[str]: None and "" are falsy.
Truthy(v) == v # None /\ v # <<>>

\* `v or d` of an Optional[str].
OrElse(v, d) == IF Truthy(v) THEN v ELSE d

SetMin(S) == CHOOSE x \in S : \A y \in S : x <= y

\* v[:n]
Take(v, n) == SubSeq(v, 1, IF Len(v) < n THEN Len(v) ELSE n)

\* v[n:] (n counted from 0)
Drop(v, n) == SubSeq(v, n + 1, Len(v))

\* The concatenation of a sequence of texts: an f-string's pieces.
RECURSIVE Cat(_)
Cat(parts) == IF parts = <<>> THEN <<>> ELSE Head(parts) \o Cat(Tail(parts))

\* str.split(d) for a one-character separator d.
RECURSIVE Split(_, _)
Split(v, d) ==
    LET hits == {i \in 1..Len(v) : v[i] = d}
    IN  IF hits = {} THEN <<v>>
        ELSE LET i == SetMin(hits)
             IN  <<SubSeq(v, 1, i - 1)>> \o Split(Drop(v, i), d)

\* d.join(list)
RECURSIVE Join(_, _)
Join(list, d) ==
    IF list = <<>> THEN <<>>
    ELSE IF Len(list) = 1 THEN list[1]
    ELSE list[1] \o <<d>> \o Join(Tail(list), d)

\* str.replace(old, new) for a one-character old.
RECURSIVE Replace(_, _, _)
Replace(v, old, new) ==
    IF v = <<>> THEN <<>>
    ELSE (IF Head(v) = old THEN new ELSE <<Head(v)>>) \o Replace(Tail(v), old, new)

\* `sub in v`
Contains(v, sub) ==
    \E i \in 0..(Len(v) - Len(sub)) : SubSeq(v, i + 1, i + Len(sub)) = sub

\* v.startswith(p)
StartsWith(v, p) == Len(p) <= Len(v) /\ SubSeq(v, 1, Len(p)) = p

Digits == {"0", "1", "2", "3", "4", "5", "6", "7", "8", "9"}

\* str(n) of a natural number
RECURSIVE Decimal(_)
Decimal(n) ==
    IF n < 10 THEN <<ToString(n)>> ELSE Append(Decimal(n \div 10),
                              ToString(n % 10))

(***************************************************************************)
(* PatientModel.normalize_dob                                              *)
(***************************************************************************)
\* re.sub(r"[-:T].*", "", v): every match starts at a '-', ':' or 'T' and
\* runs to the end of its line ('.' matches anything but a line feed).
RECURSIVE ReSubDateTail(_)
ReSubDateTail(v) ==
    LET hits == {i \in 1..Len(v) : v[i] \in {"-", ":", "T"}}
    IN  IF hits = {} THEN v
        ELSE LET i   == SetMin(hits)
                 nls == {j \in (i + 1)..Len(v) : v[j] = "\n"}
             IN  IF nls = {} THEN SubSeq(v, 1, i - 1)
                 ELSE SubSeq(v, 1, i - 1)
                          \o ReSubDateTail(SubSeq(v, SetMin(nls), Len(v)))

normalize_dob(v) == IF ~Truthy(v) THEN v ELSE Take(ReSubDateTail(v), 8)

(***************************************************************************)
(* escape_hl7_field                                                        *)
(***************************************************************************)
\* escape_hl7_field, a slip: the repetition separator left alone.
escape_hl7_field_no_tilde(v) ==
    IF v = None THEN <<>>
    ELSE Replace(Replace(Replace(v, "|", <<"\\", "F", "\\">>),
                         "^", <<"\\", "S", "\\">>),
                 "&", <<"\\", "T", "\\">>)

escape_hl7_field(v) ==
    IF v = None THEN <<>>
    ELSE Replace(Replace(Replace(Replace(v, "|", <<"\\", "F", "\\">>),
                                 "^", <<"\\", "S", "\\">>),
                         "&", <<"\\", "T", "\\">>),
                 "~", <<"\\", "R", "\\">>)

(***************************************************************************)
(* ts_to_hl7                                                               *)
(***************************************************************************)
DigitValue(c) ==
    CASE c = "0" -> 0 [] c = "1" -> 1 [] c = "2" -> 2 [] c = "3" -> 3
      [] c = "4" -> 4 [] c = "5" -> 5 [] c = "6" -> 6 [] c = "7" -> 7
      [] c = "8" -> 8 [] c = "9" -> 9

AllDigits(v) == \A i \in 1..Len(v) : v[i] \in Digits

RECURSIVE Number(_)
Number(v) == IF v = <<>> THEN 0
             ELSE 10 * Number(SubSeq(v, 1, Len(v) - 1)) + DigitValue(v[Len(v)])

\* A two-digit number, zero padded: strftime's %m, %d, %H, %M and %S.
TwoDigits(n) == <<ToString(n \div 10), ToString(n % 10)>>

\* The character at position p of the text w (positions counted from 1), the
\* terminator of the buffer past its end.
NUL == "<NUL>"
Ch(w, p) == IF p >= 1 /\ p <= Len(w) THEN w[p] ELSE NUL

\* datetime.fromisoformat reads a field with parse_digits: n decimal digits
\* from position p on, or a failure.
HasDigits(w, p, n) == \A k \in p..(p + n - 1) : Ch(w, k) \in Digits
DigitsAt(w, p, n) == Number(SubSeq(w, p, p + n - 1))

is_leap(y) == y % 4 = 0 /\ (y % 100 # 0 \/ y % 400 = 0)

DaysInMonth(y, m) ==
    IF m \in {4, 6, 9, 11} THEN 30
    ELSE IF m # 2 THEN 31
    ELSE IF is_leap(y) THEN 29 ELSE 28

\* The number of days before January 1st of year y (floor divisions).
days_before_year(y) ==
    LET y1 == y - 1
    IN  y1 * 365 + (y1 \div 4) - (y1 \div 100) + (y1 \div 400)

RECURSIVE days_before_month(_, _)
days_before_month(y, m) ==
    IF m <= 1 THEN 0 ELSE days_before_month(y, m - 1) + DaysInMonth(y, m - 1)

ymd_to_ord(y, m, d) == days_before_year(y) + days_before_month(y, m) + d

\* The date of an ordinal: the one date ymd_to_ord maps to it.
YearOfOrdinal(ordinal) ==
    CHOOSE yy \in -1..10000 :
        /\ days_before_year(yy) < ordinal
        /\ ordinal <= days_before_year(yy + 1)

\* The month of day n of the year y.
MonthOfDay(y, n) ==
    CHOOSE mm \in 1..12 :
        /\ days_before_month(y, mm) < n
        /\ n <= days_before_month(y, mm) + DaysInMonth(y, mm)

DateOfDay(y, m, n) ==
    [ok |-> TRUE, year |-> y, month |-> m,
     day |-> n - days_before_month(y, m)]

DayOfYear(y, n) == DateOfDay(y, MonthOfDay(y, n), n)

DayInYear(ordinal, y) == DayOfYear(y, ordinal - days_before_year(y))

ord_to_ymd(ordinal) == DayInYear(ordinal, YearOfOrdinal(ordinal))

\* Monday is 0.
weekday(y, m, d) == (ymd_to_ord(y, m, d) + 6) % 7

\* The Monday of the week of a day, or of the next week after Thursday.
MondayOfWeek1(first_day, first_weekday) ==
    IF first_weekday > 3 THEN first_day - first_weekday + 7
    ELSE first_day - first_weekday

Week1Monday(first_day) == MondayOfWeek1(first_day, (first_day + 6) % 7)

iso_week1_monday(y) == Week1Monday(ymd_to_ord(y, 1, 1))

NoDate == [ok |-> FALSE, year |-> 0, month |-> 0, day |-> 0]

\* The date of day d of ISO week w of year y; week 53 only in a long year.
IsLongYear(y, first_weekday) ==
    first_weekday = 3 \/ (first_weekday = 2 /\ is_leap(y))

iso_to_ymd(y, w, d) ==
    IF w <= 0 \/ w > 53 \/ (w = 53 /\ ~IsLongYear(y, weekday(y, 1, 1)))
    THEN NoDate
    ELSE IF d <= 0 \/ d >= 8 THEN NoDate
    ELSE ord_to_ymd(iso_week1_monday(y) + (w - 1) * 7 + d - 1)

\* Where the date part ends (the number of its characters), for a text of at
\* least seven characters: _find_isoformat_datetime_separator.
RECURSIVE DigitRunEnd(_, _)
DigitRunEnd(w, p) == IF Ch(w, p) \in Digits THEN DigitRunEnd(w, p + 1) ELSE p

find_isoformat_datetime_separator(w) ==
    IF Len(w) = 7 THEN 7
    ELSE IF w[5] = "-"
    THEN IF w[6] = "W"
         THEN IF Len(w) > 8 /\ w[9] = "-"
              THEN IF Len(w) = 9 THEN -1
                   ELSE IF Len(w) > 10 /\ w[11] \in Digits THEN 8
                   ELSE 10
              ELSE 8
         ELSE 10
    ELSE IF w[5] = "W"
    THEN LET idx == DigitRunEnd(w, 8) - 1
         IN  IF idx < 9 THEN idx ELSE IF idx % 2 = 0 THEN 7 ELSE 8
    ELSE 8

\* parse_isoformat_date: YYYY-MM-DD, YYYYMMDD, YYYY-Www[-D] or YYYYWww[D], the
\* date part being the first loc characters of w.
\* The day of the week date: 1 when the date part ends with the week.
WeekDay(w, loc, uses, q) ==
    IF loc >= 0 /\ q - 1 >= loc THEN 1
    ELSE IF uses /\ Ch(w, q) # "-" THEN 0
    ELSE IF ~HasDigits(w, IF uses THEN q + 1 ELSE q, 1) THEN 0
    ELSE DigitsAt(w, IF uses THEN q + 1 ELSE q, 1)

\* Whether the week date has a day that can be read.
HasWeekDay(w, loc, uses, q) ==
    \/ loc >= 0 /\ q - 1 >= loc
    \/ /\ ~(uses /\ Ch(w, q) # "-")
       /\ HasDigits(w, IF uses THEN q + 1 ELSE q, 1)

\* The date after the year, read from position p on.
DateAfterYear(w, loc, y, uses, p) ==
    IF Ch(w, p) = "W"
    THEN IF ~HasDigits(w, p + 1, 2) THEN NoDate
         ELSE IF ~HasWeekDay(w, loc, uses, p + 3) THEN NoDate
         ELSE iso_to_ymd(y, DigitsAt(w, p + 1, 2),
                         WeekDay(w, loc, uses, p + 3))
    ELSE IF ~HasDigits(w, p, 2) THEN NoDate
    ELSE IF uses /\ Ch(w, p + 2) # "-" THEN NoDate
    ELSE IF ~HasDigits(w, IF uses THEN p + 3 ELSE p + 2, 2) THEN NoDate
    ELSE [ok |-> TRUE, year |-> y,
          month |-> DigitsAt(w, p, 2),
          day |-> DigitsAt(w, IF uses THEN p + 3 ELSE p + 2, 2)]

parse_isoformat_date(w, loc) ==
    IF ~HasDigits(w, 1, 4) THEN NoDate
    ELSE DateAfterYear(w, loc, DigitsAt(w, 1, 4), Ch(w, 5) = "-",
                       IF Ch(w, 5) = "-" THEN 6 ELSE 5)

NoTime == [ok |-> FALSE, rest |-> FALSE, vals |-> <<0, 0, 0>>]

\* The fraction of a second: up to six digits are read and further digits
\* skipped; rest tells whether the buffer goes on after them.
ParseFraction(w, p, pend, vals) ==
    LET n == IF pend - p >= 6 THEN 6 ELSE pend - p
    IN  IF ~HasDigits(w, p, n) THEN NoTime
        ELSE [ok |-> TRUE, rest |-> Ch(w, DigitRunEnd(w, p + n)) # NUL,
              vals |-> vals]

\* parse_hh_mm_ss_ff: HH[:MM[:SS[.ffffff]]] or HHMMSS read from position p up
\* to pend; i counts the fields read and has_separator is set by the first.
RECURSIVE parse_hh_mm_ss_ff(_, _, _, _, _, _)
parse_hh_mm_ss_ff(w, p, pend, i, has_separator, vals) ==
    IF i = 3 THEN ParseFraction(w, p, pend, vals)
    ELSE IF ~HasDigits(w, p, 2) THEN NoTime
    ELSE LET c   == Ch(w, p + 2)
             q   == p + 3
             sep == IF i = 0 THEN c = ":" ELSE has_separator
             nv  == [vals EXCEPT ![i + 1] = DigitsAt(w, p, 2)]
         IN  IF q >= pend THEN [ok |-> TRUE, rest |-> c # NUL, vals |-> nv]
             ELSE IF sep /\ c = ":"
                  THEN parse_hh_mm_ss_ff(w, q, pend, i + 1, sep, nv)
             ELSE IF c \in {".", ","} THEN ParseFraction(w, q, pend, nv)
             ELSE IF ~sep THEN parse_hh_mm_ss_ff(w, q - 1, pend, i + 1, sep, nv)
             ELSE NoTime

\* parse_isoformat_time from position p on: the time up to the first 'Z', '+'
\* or '-', then the UTC offset, which must lie strictly within a day.
\* Where the time ends: at the first 'Z', '+' or '-', or at the end.
FirstMark(marks, p, pend) ==
    IF marks # {} THEN SetMin(marks)
    ELSE IF p + 1 < pend THEN pend ELSE p + 1

TzPosition(w, p) ==
    FirstMark({k \in p..Len(w) : w[k] \in {"Z", "+", "-"}}, p, Len(w) + 1)

\* The time, given the UTC offset read after it.
TimeWithOffset(time, off) ==
    IF ~off.ok \/ off.rest THEN NoTime
    ELSE IF off.vals[1] * 3600 + off.vals[2] * 60 + off.vals[3] > 86399
    THEN NoTime
    ELSE time

\* The time read up to position tz, and what follows it.
TimeAndZone(w, tz, time) ==
    IF ~time.ok THEN NoTime
    ELSE IF tz = Len(w) + 1 THEN (IF time.rest THEN NoTime ELSE time)
    ELSE IF Ch(w, tz) = "Z"
    THEN (IF Ch(w, tz + 1) # NUL THEN NoTime ELSE time)
    ELSE TimeWithOffset(
             time,
             parse_hh_mm_ss_ff(w, tz + 1, Len(w) + 1, 0, TRUE, <<0, 0, 0>>))

TimeUpTo(w, p, tz) ==
    TimeAndZone(w, tz, parse_hh_mm_ss_ff(w, p, tz, 0, TRUE, <<0, 0, 0>>))

parse_isoformat_time(w, p) == TimeUpTo(w, p, TzPosition(w, p))

\* datetime.fromisoformat(v): the fields of the datetime, or ok = FALSE where
\* it raises ValueError.
NoDateTime == [ok |-> FALSE, year |-> 0, month |-> 0, day |-> 0,
               hour |-> 0, minute |-> 0, second |-> 0]

\* The datetime of a date and a time, when both were read and in range.
DateTimeOf(d, t) ==
    IF ~d.ok \/ ~t.ok THEN NoDateTime
    ELSE IF \/ d.year < 1 \/ d.year > 9999
            \/ d.month < 1 \/ d.month > 12
            \/ d.day < 1 \/ d.day > DaysInMonth(d.year, d.month)
            \/ t.vals[1] > 23 \/ t.vals[2] > 59 \/ t.vals[3] > 59
    THEN NoDateTime
    ELSE [ok |-> TRUE, year |-> d.year, month |-> d.month,
          day |-> d.day, hour |-> t.vals[1], minute |-> t.vals[2],
          second |-> t.vals[3]]

\* The time that follows the date, midnight when nothing does.
TimeAfterDate(v, loc, d) ==
    DateTimeOf(d, IF d.ok /\ Len(v) > loc
                  THEN parse_isoformat_time(v, loc + 2)
                  ELSE [ok |-> TRUE, rest |-> FALSE, vals |-> <<0, 0, 0>>])

DateUpTo(v, loc) == TimeAfterDate(v, loc, parse_isoformat_date(v, loc))

fromisoformat(v) ==
    IF Len(v) < 7 THEN NoDateTime
    ELSE DateUpTo(v, find_isoformat_datetime_separator(v))

\* dt.strftime("%Y%m%d%H%M%S"): the C library's %Y writes the year without
\* leading zeros, and an offset stays in tzinfo without shifting the fields.
strftime(dt) ==
    Decimal(dt.year) \o TwoDigits(dt.month) \o TwoDigits(dt.day)
        \o TwoDigits(dt.hour) \o TwoDigits(dt.minute) \o TwoDigits(dt.second)

\* re.sub(r"\D", "", v)
OnlyDigits(v) == SelectSeq(v, LAMBDA c : c \in Digits)

\* ts_to_hl7(ts), the clock reading utcnow being what strftime gives for now.
\* What ts_to_hl7 returns for a text, given what fromisoformat made of it.
Stamped(ts, dt) == IF dt.ok THEN strftime(dt) ELSE Take(OnlyDigits(ts), 14)

ts_to_hl7(ts, utcnow) ==
    IF ~Truthy(ts) THEN utcnow
    ELSE Stamped(ts, fromisoformat(
                         Replace(ts, "Z", <<"+", "0", "0", ":", "0", "0">>)))

(***************************************************************************)
(* Constants                                                               *)
(***************************************************************************)
NATIONAL_ORG_ROOT == <<"2.16.840.1.113883.3.3731">>
ASSIGNING_AUTHORITY_HEALTH_ID == NATIONAL_ORG_ROOT \o <<".1.1.100.1">>
HL7_VERSION == <<"2.5.1">>

(***************************************************************************)
(* HL7 builder                                                             *)
(***************************************************************************)
build_msh(hdr, utcnow, uuid4) ==
    LET enc == <<"^", "~", "\\", "&">>
        sending_app == OrElse(hdr.sending_app_oid, <<>>)
        sending_fac == OrElse(hdr.sending_facility, <<>>)
        recv_app == OrElse(hdr.receiving_app, <<>>)
        recv_fac == OrElse(hdr.receiving_facility, <<>>)
        dt == ts_to_hl7(hdr.message_datetime, utcnow)
        msg_type == hdr.event
        ctrl == OrElse(hdr.message_control_id, uuid4)
        proc == <<"P">>
        ver == OrElse(hdr.version, HL7_VERSION)
    IN  Cat(<<<<"MSH", "|">>, enc, <<"|">>, sending_app, <<"|">>, sending_fac,
              <<"|">>, recv_app, <<"|">>, recv_fac, <<"|">>, dt, <<"|", "|">>,
              msg_type, <<"|">>, ctrl, <<"|">>, proc, <<"|">>, ver>>)

\* The identifier a PID-3 is built from, a slip: the last one.
PidIdentifierLast(patient) == patient.identifiers[Len(patient.identifiers)]

\* The identifier a PID-3 is built from: p.identifiers[0].
PidIdentifier(patient) == patient.identifiers[1]

\* Whether build_pid raises: the first identifier's authority is checked.
PidAuthorityRejected(patient) ==
    /\ Len(patient.identifiers) > 0
    /\ PidIdentifier(patient).assigning_authority # ASSIGNING_AUTHORITY_HEALTH_ID

\* build_pid: [ok |-> FALSE] stands for the HTTPException(400) it raises.
build_pid(patient) ==
    IF PidAuthorityRejected(patient) THEN [ok |-> FALSE, seg |-> <<>>]
    ELSE
    LET pid3 == IF Len(patient.identifiers) > 0
                THEN Cat(<<PidIdentifier(patient).id, <<"^", "^", "^">>,
                           PidIdentifier(patient).assigning_authority,
                           <<"^", "ISO">>>>)
                ELSE <<>>
        name == IF \/ Truthy(patient.name_family)
                   \/ Truthy(patient.name_given)
                   \/ Truthy(patient.middle_name)
                THEN Cat(<<escape_hl7_field(OrElse(patient.name_family, <<>>)),
                           <<"^">>,
                           escape_hl7_field(OrElse(patient.name_given, <<>>)),
                           <<"^">>,
                           escape_hl7_field(OrElse(patient.middle_name, <<>>))>>)
                ELSE <<>>
        dob == OrElse(patient.dob, <<>>)
        sex == OrElse(patient.sex, <<>>)
    IN  [ok |-> TRUE,
         seg |-> Cat(<<<<"PID", "|", "1", "|", "|">>, pid3, <<"|", "|">>, name,
                       <<"|", "|">>, dob, <<"|">>, sex>>)]

\* dict.get(key, default)
Get(d, key, default) == IF key \in DOMAIN d THEN d[key] ELSE default

\* n field separators in a row
RECURSIVE Bars(_)
Bars(n) == IF n = 0 THEN <<>> ELSE <<"|">> \o Bars(n - 1)

EvnCode(event) ==
    IF Contains(event, <<"^">>)
    THEN LET parts == Split(event, "^") IN parts[Len(parts)]
    ELSE event

Pd1Segment(pd1) ==
    LET vip == OrElse(pd1.vip_indicator, <<>>)
        prior == Join([i \in 1..Len(pd1.prior_patient_ids) |->
                          Cat(<<pd1.prior_patient_ids[i].id, <<"^", "^", "^">>,
                                pd1.prior_patient_ids[i].assigning_authority,
                                <<"^", "ISO">>>>)], "~")
    IN  Cat(<<<<"PD1", "|">>, vip, <<"|">>, prior>>)

\* ts_to_hl7(x) if x else '' (the clock is never read: x is truthy)
TsOrEmpty(x) == IF Truthy(x) THEN ts_to_hl7(x, <<>>) ELSE <<>>

AttendDoc(v) ==
    Cat(<<OrElse(v.attending_doctor_id, <<>>), <<"^">>,
          OrElse(v.attending_doctor_family, <<>>), <<"^">>,
          OrElse(v.attending_doctor_given, <<>>)>>)

Pv1Segment(v) ==
    Cat(<<<<"PV1", "|", "1", "|">>, OrElse(v.patient_class, <<>>), <<"|">>,
          OrElse(v.location, <<>>), Bars(4), AttendDoc(v), Bars(15),
          OrElse(v.visit_number, <<>>), <<"|">>, TsOrEmpty(v.admit_datetime),
          <<"|">>, TsOrEmpty(v.discharge_datetime)>>)

Pv2Segment(v) ==
    Cat(<<<<"PV2">>, Bars(3), TsOrEmpty(v.admit_datetime), <<"|">>,
          TsOrEmpty(v.discharge_datetime)>>)

\* The MRG segment, a slip: the prior visit number one field early.
MrgSegmentOneFieldEarly(mrg) ==
    Cat(<<<<"MRG", "|">>, Get(mrg, "prior_patient_id", <<>>), Bars(2),
          Get(mrg, "prior_visit_number", <<>>)>>)

MrgSegment(mrg) ==
    Cat(<<<<"MRG", "|">>, Get(mrg, "prior_patient_id", <<>>), Bars(3),
          Get(mrg, "prior_visit_number", <<>>)>>)

Al1Segment(a) ==
    Cat(<<<<"AL1">>, Bars(3), escape_hl7_field(Get(a, "allergen", <<>>)),
          <<"|">>, escape_hl7_field(Get(a, "reaction", <<>>)),
          <<"|">>, escape_hl7_field(Get(a, "severity", <<>>))>>)

Dg1Segment(d) ==
    Cat(<<<<"DG1", "|">>, Get(d, "set_id", <<"1">>), <<"|">>,
          Get(d, "diagnosis_type", <<>>), <<"|">>,
          Get(d, "diagnosis_code", <<>>), <<"|">>,
          escape_hl7_field(Get(d, "diagnosis_desc", <<>>))>>)

Pr1Segment(p) ==
    Cat(<<<<"PR1", "|">>, Get(p, "set_id", <<"1">>), <<"|">>,
          Get(p, "procedure_code", <<>>), <<"|">>,
          escape_hl7_field(Get(p, "procedure_desc", <<>>))>>)

Nk1Segment(nk) ==
    Cat(<<<<"NK1", "|", "|">>, escape_hl7_field(OrElse(nk.name, <<>>)),
          <<"|">>, escape_hl7_field(OrElse(nk.relationship, <<>>)),
          <<"|">>, escape_hl7_field(OrElse(nk.phone_number, <<>>))>>)

Gt1Segment(gt) ==
    Cat(<<<<"GT1", "|">>, escape_hl7_field(OrElse(gt.guarantor_number, <<>>)),
          <<"|">>, escape_hl7_field(OrElse(gt.guarantor_name, <<>>)),
          <<"|">>, escape_hl7_field(OrElse(gt.guarantor_address, <<>>)),
          <<"|">>, escape_hl7_field(OrElse(gt.guarantor_phone, <<>>))>>)

In1Segment(ins) ==
    Cat(<<<<"IN1", "|">>, escape_hl7_field(OrElse(ins.insurance_plan_id, <<>>)),
          <<"|">>, escape_hl7_field(OrElse(ins.insurance_company_id, <<>>)),
          <<"|">>, escape_hl7_field(OrElse(ins.insurance_company_name, <<>>)),
          <<"|">>, escape_hl7_field(OrElse(ins.insured_id, <<>>)),
          <<"|">>, escape_hl7_field(OrElse(ins.insured_name, <<>>))>>)

\* The visit's segments, a slip: PV2 before PV1.
VisitSegmentsSwapped(p) ==
    IF p.visit.present THEN <<Pv2Segment(p.visit), Pv1Segment(p.visit)>>
    ELSE <<>>

\* The visit's segments: PV1, then PV2.
VisitSegments(p) ==
    IF p.visit.present THEN <<Pv1Segment(p.visit), Pv2Segment(p.visit)>>
    ELSE <<>>

\* The segments json_to_hl7_full appends after PID, in the order it appends.
OptionalSegments(p) ==
    Cat(<<IF p.pd1.present THEN <<Pd1Segment(p.pd1)>> ELSE <<>>,
          VisitSegments(p),
          IF DOMAIN p.mrg # {} THEN <<MrgSegment(p.mrg)>> ELSE <<>>,
          [i \in 1..Len(p.al1) |-> Al1Segment(p.al1[i])],
          [i \in 1..Len(p.dg1) |-> Dg1Segment(p.dg1[i])],
          [i \in 1..Len(p.pr1) |-> Pr1Segment(p.pr1[i])],
          [i \in 1..Len(p.nk1) |-> Nk1Segment(p.nk1[i])],
          [i \in 1..Len(p.gt1) |-> Gt1Segment(p.gt1[i])],
          [i \in 1..Len(p.in1) |-> In1Segment(p.in1[i])]>>)

\* The message json_to_hl7_full assembles, or the error of build_pid.  now1
\* and now2 are the two clock readings (build_msh's and the EVN's), uuid4 a
\* fresh control id.
AssembledMessage(p, now1, now2, uuid4) ==
    LET msh == build_msh(p.header, now1, uuid4)
        evn == Cat(<<<<"EVN", "|">>, EvnCode(p.header.event), <<"|">>,
                     ts_to_hl7(p.header.message_datetime, now2)>>)
        pid == build_pid(p.patient)
    IN  IF ~pid.ok THEN [ok |-> FALSE, status |-> 400, text |-> <<>>]
        ELSE [ok |-> TRUE, status |-> 200,
              text |-> Join(<<msh, evn, pid.seg>> \o OptionalSegments(p), "\r")]

\* What the conformance check logs: nothing without hl7apy, else a debug
\* entry when hl7apy parses the message and a warning when it raises.
Hl7apyLog(available, conforms) ==
    IF ~available THEN "none" ELSE IF conforms THEN "debug" ELSE "warning"

\* The conformance check, a slip: a message hl7apy rejects is refused.
ConformanceCheckedStrictly(built, available, conforms) ==
    IF available /\ ~conforms
    THEN [ok |-> FALSE, status |-> 500, text |-> <<>>]
    ELSE built

\* What json_to_hl7_full returns after the conformance check: the exception
\* of hl7apy is caught and logged, and the message is returned as it is.
ConformanceChecked(built, available, conforms) == built

\* json_to_hl7_full: the check is reached only once the message is there.
json_to_hl7_full(p, now1, now2, uuid4, available, conforms) ==
    LET built == AssembledMessage(p, now1, now2, uuid4)
    IN  IF built.ok THEN ConformanceChecked(built, available, conforms)
        ELSE built

(***************************************************************************)
(* HL7 parser                                                              *)
(***************************************************************************)
\* Python's None where a dict is expected.
NoDict == [none |-> TRUE]

\* d[key] = value on a dict (a function on its keys; {} is <<>>).
DictSet(d, key, value) == (key :> value) @@ d

Whitespace == {" ", "\t", "\n", "\f", "\r"}

\* seg.strip() == ""
IsBlank(seg) == \A i \in 1..Len(seg) : seg[i] \in Whitespace

\* fields[i] if len(fields) > i else ""   (i counted from 0)
Field(fields, i) == IF Len(fields) > i THEN fields[i + 1] ELSE <<>>

\* The PV1 indices the parser reads.
Pv1AttendingIndex == 8
Pv1VisitNumberIndex == 19

DecodeMsh(fields) ==
    [sending_app_oid |-> Field(fields, 2),
     sending_facility |-> Field(fields, 3),
     receiving_app |-> Field(fields, 4),
     receiving_facility |-> Field(fields, 5),
     message_datetime |-> Field(fields, 6),
     event |-> Field(fields, 8),
     message_control_id |-> Field(fields, 9),
     version |-> Field(fields, 11)]

DecodePid(fields) ==
    [identifiers |-> <<Field(fields, 3)>>,
     name |-> Field(fields, 5),
     dob |-> Field(fields, 7),
     sex |-> Field(fields, 8)]

DecodePv1(fields) ==
    [patient_class |-> Field(fields, 2),
     location |-> Field(fields, 3),
     attending_doctor |-> Field(fields, Pv1AttendingIndex),
     visit_number |-> Field(fields, Pv1VisitNumberIndex)]

\* result.setdefault(key, []).append(entry)
SetDefaultAppend(result, key, entry) ==
    IF key \in DOMAIN result
    THEN [result EXCEPT ![key] = Append(@, entry)]
    ELSE DictSet(result, key, <<entry>>)

\* One pass of the parser's loop body over a segment.  r is [ok, result];
\* ok = FALSE stands for the TypeError of an item assignment on None, which
\* result.setdefault("visit", {}) returns when no PV1 came before a PV2.
DecodeSegment(r, seg) ==
    LET fields == Split(seg, "|")
        name == fields[1]
        res == r.result
    IN  IF ~r.ok THEN r
        ELSE IF name = <<"MSH">>
        THEN [r EXCEPT !.result.header = DecodeMsh(fields) @@ res.header]
        ELSE IF name = <<"EVN">>
        THEN [r EXCEPT !.result.header =
                 DictSet(DictSet(res.header, "evn", Field(fields, 1)),
                         "evn_datetime", Field(fields, 2))]
        ELSE IF name = <<"PID">>
        THEN [r EXCEPT !.result.patient = DecodePid(fields)]
        ELSE IF name = <<"PD1">>
        THEN [r EXCEPT !.result.pd1 = [vip |-> Field(fields, 1),
                                       prior_ids |-> Field(fields, 2)]]
        ELSE IF name = <<"PV1">>
        THEN [r EXCEPT !.result.visit = DecodePv1(fields)]
        ELSE IF name = <<"PV2">>
        THEN IF res.visit = NoDict
             THEN [r EXCEPT !.ok = FALSE]
             ELSE [r EXCEPT !.result.visit =
                      DictSet(DictSet(res.visit, "admit", Field(fields, 3)),
                              "discharge", Field(fields, 4))]
        ELSE IF name = <<"MRG">>
        THEN [r EXCEPT !.result.mrg = [prior_patient_id |-> Field(fields, 1),
                                       prior_visit |-> Field(fields, 4)]]
        ELSE IF name = <<"AL1">>
        THEN [r EXCEPT !.result.al1 =
                 Append(@, [allergen |-> Field(fields, 3),
                            reaction |-> Field(fields, 4)])]
        ELSE IF name = <<"DG1">>
        THEN [r EXCEPT !.result.dg1 =
                 Append(@, [code |-> Field(fields, 3),
                            desc |-> Field(fields, 4)])]
        ELSE IF name = <<"PR1">>
        THEN [r EXCEPT !.result.pr1 =
                 Append(@, [code |-> Field(fields, 2),
                            desc |-> Field(fields, 3)])]
        ELSE IF name = <<"NK1">>
        THEN [r EXCEPT !.result =
                 SetDefaultAppend(res, "nk1",
                     [name |-> Field(fields, 2),
                      relationship |-> Field(fields, 3),
                      phone_number |-> Field(fields, 4)])]
        ELSE IF name = <<"GT1">>
        THEN [r EXCEPT !.result =
                 SetDefaultAppend(res, "gt1",
                     [guarantor_number |-> Field(fields, 1),
                      guarantor_name |-> Field(fields, 2),
                      guarantor_address |-> Field(fields, 3),
                      guarantor_phone |-> Field(fields, 4)])]
        ELSE IF name = <<"IN1">>
        THEN [r EXCEPT !.result =
                 SetDefaultAppend(res, "in1",
                     [insurance_plan_id |-> Field(fields, 1),
                      insurance_company_id |-> Field(fields, 2),
                      insurance_company_name |-> Field(fields, 3),
                      insured_id |-> Field(fields, 4),
                      insured_name |-> Field(fields, 5)])]
        ELSE r

RECURSIVE DecodeSegments(_, _)
DecodeSegments(r, segments) ==
    IF segments = <<>> THEN r
    ELSE DecodeSegments(DecodeSegment(r, Head(segments)), Tail(segments))

\* The segments the parser loops over.
MessageSegments(hl7_msg) ==
    SelectSeq(Split(hl7_msg, "\r"), LAMBDA seg : ~IsBlank(seg))

hl7_full_to_json(hl7_msg) ==
    DecodeSegments(
        [ok |-> TRUE,
         result |-> [header |-> <<>>, patient |-> <<>>, pd1 |-> NoDict,
                     visit |-> NoDict, mrg |-> NoDict,
                     al1 |-> <<>>, dg1 |-> <<>>, pr1 |-> <<>>]],
        MessageSegments(hl7_msg))

(***************************************************************************)
(* Bytes and base64                                                        *)
(*                                                                         *)
(* A document may be hundreds of kilobytes long, so bytes, and the text    *)
(* that is their base64, are held as a unit repeated reps times and then a *)
(* tail: [unit, reps, tail] stands for unit^reps \o tail.                  *)
(***************************************************************************)
Run(unit, reps, tail) ==
    [unit |-> IF reps = 0 THEN <<>> ELSE unit, reps |-> reps, tail |-> tail]

EmptyRun == Run(<<>>, 0, <<>>)

\* len(b)
RunLen(b) == Len(b.unit) * b.reps + Len(b.tail)

RECURSIVE Power(_, _)
Power(unit, n) == IF n = 0 THEN <<>> ELSE unit \o Power(unit, n - 1)

\* The same bytes, the unit taken m times over.
Regroup(b, m) ==
    Run(Power(b.unit, m), b.reps \div m, Power(b.unit, b.reps % m) \o b.tail)

B64Alphabet ==
    <<"A", "B", "C", "D", "E", "F", "G", "H", "I", "J", "K", "L", "M",
      "N", "O", "P", "Q", "R", "S", "T", "U", "V", "W", "X", "Y", "Z",
      "a", "b", "c", "d", "e", "f", "g", "h", "i", "j", "k", "l", "m",
      "n", "o", "p", "q", "r", "s", "t", "u", "v", "w", "x", "y", "z",
      "0", "1", "2", "3", "4", "5", "6", "7", "8", "9", "+", "/">>

IsB64Char(c) == \E i \in 1..64 : B64Alphabet[i] = c

\* The six bits a base64 character stands for.
B64Value(c) == (CHOOSE i \in 1..64 : B64Alphabet[i] = c) - 1

\* ord(c) of an ASCII character of the model's texts.
Ord(c) ==
    IF IsB64Char(c)
    THEN LET v == B64Value(c)
         IN  IF v < 26 THEN 65 + v
             ELSE IF v < 52 THEN 97 + (v - 26)
             ELSE IF v < 62 THEN 48 + (v - 52)
             ELSE IF v = 62 THEN 43 ELSE 47
    ELSE IF c = "=" THEN 61
    ELSE IF c = "!" THEN 33
    ELSE 63

\* The characters of the model's texts that are not ASCII, with their UTF-8.
NonAscii == {"é"}

Utf8OfChar(c) == IF c = "é" THEN <<195, 169>> ELSE <<Ord(c)>>

\* text.encode("utf-8")
Utf8(text) == Cat([i \in 1..Len(text) |-> Utf8OfChar(text[i])])

\* binascii.a2b_base64 (not strict), one character at a time.
A2bStart == [quad_pos |-> 0, leftchar |-> 0, pads |-> 0, done |-> FALSE,
             bin |-> <<>>]

A2bStep(st, c) ==
    IF st.done THEN st
    ELSE IF c = "="
    THEN IF st.quad_pos >= 2
         THEN [st EXCEPT !.pads = @ + 1,
                         !.done = (st.quad_pos + st.pads + 1 >= 4)]
         ELSE st
    ELSE IF ~IsB64Char(c) THEN st
    ELSE LET v == B64Value(c)
         IN  CASE st.quad_pos = 0 ->
                    [st EXCEPT !.pads = 0, !.quad_pos = 1, !.leftchar = v]
               [] st.quad_pos = 1 ->
                    [st EXCEPT !.pads = 0, !.quad_pos = 2,
                               !.bin = Append(@, st.leftchar * 4 + (v \div 16)),
                               !.leftchar = v % 16]
               [] st.quad_pos = 2 ->
                    [st EXCEPT !.pads = 0, !.quad_pos = 3,
                               !.bin = Append(@, st.leftchar * 16 + (v \div 4)),
                               !.leftchar = v % 4]
               [] st.quad_pos = 3 ->
                    [st EXCEPT !.pads = 0, !.quad_pos = 0,
                               !.bin = Append(@, st.leftchar * 64 + v),
                               !.leftchar = 0]

RECURSIVE A2bRun(_, _)
A2bRun(st, text) ==
    IF text = <<>> THEN st ELSE A2bRun(A2bStep(st, Head(text)), Tail(text))

\* Whether a2b_base64 raises binascii.Error on the text.
A2bFails(text) ==
    LET st == A2bRun(A2bStart, text) IN ~st.done /\ st.quad_pos # 0

\* base64.b64decode(doc) of a str: [ok |-> FALSE] stands for the ValueError
\* of a character that is not ASCII or the binascii.Error of the padding.
\* The unit of doc is whole four-character groups, after which the decoder
\* is back at the start of a group.
b64decode(doc) ==
    IF \/ \E i \in 1..Len(doc.tail) : doc.tail[i] \in NonAscii
       \/ A2bFails(doc.tail)
    THEN [ok |-> FALSE, bytes |-> EmptyRun]
    ELSE [ok |-> TRUE,
          bytes |-> Run(A2bRun(A2bStart, doc.unit).bin, doc.reps,
                        A2bRun(A2bStart, doc.tail).bin)]

\* The base64 of at most three bytes, padded.
B64Group(g) ==
    LET b1 == g[1]
        b2 == IF Len(g) >= 2 THEN g[2] ELSE 0
        b3 == IF Len(g) >= 3 THEN g[3] ELSE 0
    IN  <<B64Alphabet[(b1 \div 4) + 1],
          B64Alphabet[(b1 % 4) * 16 + (b2 \div 16) + 1],
          IF Len(g) >= 2 THEN B64Alphabet[(b2 % 16) * 4 + (b3 \div 64) + 1]
          ELSE "=",
          IF Len(g) >= 3 THEN B64Alphabet[(b3 % 64) + 1] ELSE "=">>

RECURSIVE B64OfBytes(_)
B64OfBytes(bytes) ==
    IF bytes = <<>> THEN <<>>
    ELSE B64Group(Take(bytes, 3)) \o B64OfBytes(Drop(bytes, 3))

\* base64.b64encode(b).decode("utf-8")
b64encode(b) ==
    LET g == IF Len(b.unit) % 3 = 0 THEN b ELSE Regroup(b, 3)
    IN  Run(B64OfBytes(g.unit), g.reps, B64OfBytes(g.tail))

\* doc.encode("utf-8")
Utf8OfRun(doc) == Run(Utf8(doc.unit), doc.reps, Utf8(doc.tail))

\* The bytes in one form, so that equal bytes are equal values: short ones
\* written out, long ones in units of twelve with the tail's whole units
\* counted in.
RECURSIVE TakeUnits(_)
TakeUnits(b) ==
    IF b.unit # <<>> /\ StartsWith(b.tail, b.unit)
    THEN TakeUnits(Run(b.unit, b.reps + 1, Drop(b.tail, Len(b.unit))))
    ELSE b

SameBytes(b) ==
    IF RunLen(b) <= 48 THEN Run(<<>>, 0, Power(b.unit, b.reps) \o b.tail)
    ELSE TakeUnits(IF Len(b.unit) = 12 THEN b
                   ELSE Regroup(b, 12 \div Len(b.unit)))

\* hashlib.sha1(b).hexdigest(): one digest per byte string.
Sha1Hex(b) == <<"sha1:" \o ToString(SameBytes(b))>>

\* sha1_and_size, a slip: the size of the base64 text.
sha1_and_size_of_text(b) ==
    [h |-> Sha1Hex(b), size |-> Decimal(RunLen(b64encode(b)))]

sha1_and_size(b) == [h |-> Sha1Hex(b), size |-> Decimal(RunLen(b))]

(***************************************************************************)
(* The utility functions applied to bounded inputs                         *)
(***************************************************************************)
MaxLen == 3

UtilAlphabet == {"|", "^", "&", "~", "\\", "a", "-", "\n", "1"}

RECURSIVE TextsUpTo(_, _)
TextsUpTo(A, n) ==
    IF n = 0 THEN {<<>>}
    ELSE LET shorter == TextsUpTo(A, n - 1)
         IN  shorter \cup {Append(t, a) : t \in shorter, a \in A}

IsoDateTime ==
    <<"1", "9", "8", "0", "-", "0", "1", "-", "0", "1", "T",
      "0", "0", ":", "0", "0", ":", "0", "0", "Z">>
IsoDate == <<"1", "9", "8", "0", "-", "0", "1", "-", "0", "1">>
Hl7Date == <<"1", "9", "8", "0", "0", "1", "0", "1">>
Hl7DateTime == Hl7Date \o <<"1", "2", "3", "0">>

AllReserved == <<"a", "|", "^", "&", "~", "\\", "b">>

\* Time stamps: ISO 8601 extended and basic, one that is no ISO 8601 text,
\* one with more than fourteen digits and a second out of range, and a date
\* of the first millennium.
IsoStamp ==
    <<"2", "0", "2", "5", "-", "1", "0", "-", "2", "1", "T",
      "1", "2", ":", "3", "0", ":", "0", "0", "Z">>
BasicStamp ==
    <<"2", "0", "2", "5", "1", "0", "2", "1", "T",
      "1", "2", "3", "0", "0", "0", "Z">>
LooseStamp == <<"2", "0", "2", "5", "/", "1", "0", "/", "2", "1", " ", "9", "h">>
LongStamp ==
    <<"2", "0", "2", "5", "-", "1", "0", "-", "2", "1", "T",
      "1", "2", ":", "3", "0", ":", "6", "1", ".", "5", "0", "0">>
EarlyDate == <<"0", "0", "9", "9", "-", "0", "1", "-", "0", "1">>
WeekDate == <<"2", "0", "2", "5", "-", "W", "0", "1", "-", "1">>

UtilInputs ==
    TextsUpTo(UtilAlphabet, MaxLen)
        \cup {None, IsoDateTime, IsoDate, Hl7Date, Hl7DateTime, AllReserved,
              IsoStamp, BasicStamp, LooseStamp, LongStamp, EarlyDate, WeekDate}

\* How far the clock may advance during a request.
MaxTick == 1

\* datetime.utcnow().strftime("%Y%m%d%H%M%S") at tick t
UtcNow(t) == <<"utcnow+" \o ToString(t)>>

\* The variables a specification does not use keep these values.
NoPayload == [present |-> FALSE]
NoHl7 == [ok |-> FALSE, status |-> 0, text |-> <<>>]
NoParsed == [ok |-> FALSE, result |-> <<>>]

Hl7Idle ==
    /\ HL7APY_AVAILABLE = FALSE
    /\ payload = NoPayload
    /\ hl7 = NoHl7
    /\ hl7apy_log = "none"
    /\ parsed = NoParsed

UtilIdle == s = <<>> /\ out = <<>>

NoObj == [present |-> FALSE]
NoXml == [ok |-> FALSE, status |-> 0, xml |-> <<>>]
NoMultipart == [boundary |-> <<>>, parts |-> <<>>]
NoResponse ==
    [status |-> 0, media_type |-> <<>>, kind |-> "none", xml |-> <<>>,
     multipart |-> NoMultipart]

\* No document decoded yet.
NoJson == [ok |-> FALSE, status |-> 0, json |-> <<>>]

DecodeIdle == xml_in = <<>> /\ json = NoJson

ItiIdle ==
    obj = NoObj /\ xml = NoXml /\ response = NoResponse /\ DecodeIdle

UtilInit ==
    pc = "start" /\ s \in UtilInputs /\ out = <<>> /\ Hl7Idle /\ ItiIdle

NormalizeDob ==
    /\ pc = "start"
    /\ out' = normalize_dob(s)
    /\ pc' = "normalize_dob"
    /\ UNCHANGED <<s, HL7APY_AVAILABLE, payload, hl7, hl7apy_log, parsed,
                   obj, xml, response,
                   xml_in, json>>

EscapeHl7Field ==
    /\ pc = "start"
    /\ out' = escape_hl7_field(s)
    /\ pc' = "escape_hl7_field"
    /\ UNCHANGED <<s, HL7APY_AVAILABLE, payload, hl7, hl7apy_log, parsed,
                   obj, xml, response,
                   xml_in, json>>

TsToHl7 ==
    /\ pc = "start"
    /\ \E t \in 0..MaxTick : out' = ts_to_hl7(s, UtcNow(t))
    /\ pc' = "ts_to_hl7"
    /\ UNCHANGED <<s, HL7APY_AVAILABLE, payload, hl7, hl7apy_log, parsed,
                   obj, xml, response,
                   xml_in, json>>

UtilNext == NormalizeDob \/ EscapeHl7Field \/ TsToHl7

SpecUtil == UtilInit /\ [][UtilNext]_vars

(***************************************************************************)
(* The HL7 codec applied to bounded requests                               *)
(***************************************************************************)
\* The entries of al1, dg1, pr1, nk1, gt1 and in1 together.
MaxEntries == 2

AdmitStamp ==
    <<"2", "0", "2", "5", "-", "1", "0", "-", "2", "1", "T",
      "1", "0", ":", "0", "0", ":", "0", "0", "Z">>

OTHER_AUTHORITY == <<"1.2.3.4">>

Headers ==
    {[event |-> <<"ADT", "^", "A01">>,
      sending_app_oid |-> NATIONAL_ORG_ROOT \o <<".test">>,
      sending_facility |-> <<"HOSP">>,
      receiving_app |-> <<"RAPP">>,
      receiving_facility |-> <<"RFAC">>,
      message_datetime |-> IsoStamp,
      message_control_id |-> <<"MSG01">>,
      version |-> HL7_VERSION],
     [event |-> <<"A08">>,
      sending_app_oid |-> None,
      sending_facility |-> None,
      receiving_app |-> None,
      receiving_facility |-> None,
      message_datetime |-> None,
      message_control_id |-> None,
      version |-> None],
     [event |-> <<"ADT", "^", "A31", "^", "ADT_A05">>,
      sending_app_oid |-> <<"APP">>,
      sending_facility |-> <<>>,
      receiving_app |-> <<>>,
      receiving_facility |-> <<"R", "&", "D">>,
      message_datetime |-> LooseStamp,
      message_control_id |-> <<>>,
      version |-> <<"2.4">>]}

Ident(id, authority) == [id |-> id, assigning_authority |-> authority, type |-> None]

\* PatientModel(...): the dob validator runs when the model is built.
Patient(ids, family, given, middle, dob, sex) ==
    [identifiers |-> ids, name_family |-> family, name_given |-> given,
     middle_name |-> middle, dob |-> normalize_dob(dob), sex |-> sex]

Patients ==
    {Patient(<<Ident(<<"NHIC123456">>, ASSIGNING_AUTHORITY_HEALTH_ID)>>,
             <<"Doe">>, <<"John">>, None, Hl7Date, <<"M">>),
     Patient(<<Ident(<<"N", "|", "7">>, ASSIGNING_AUTHORITY_HEALTH_ID),
               Ident(<<"MRN9">>, OTHER_AUTHORITY)>>,
             <<"O", "^", "Neil">>, None, <<"J", "~", "r">>, IsoDateTime, <<"F">>),
     Patient(<<Ident(<<"MRN1">>, OTHER_AUTHORITY),
               Ident(<<"NHIC2">>, ASSIGNING_AUTHORITY_HEALTH_ID)>>,
             <<"Roe">>, <<"Jane">>, None, IsoDate, <<"F">>),
     Patient(<<Ident(<<"NHIC3">>, None)>>, <<"Poe">>, None, None, None, None),
     Patient(<<>>, None, None, None, None, None)}

NoPd1 == [present |-> FALSE]
Pd1s ==
    {NoPd1,
     [present |-> TRUE, vip_indicator |-> <<"Y">>,
      prior_patient_ids |-> <<Ident(<<"OLD1">>, ASSIGNING_AUTHORITY_HEALTH_ID),
                              Ident(<<"OLD2">>, OTHER_AUTHORITY)>>],
     [present |-> TRUE, vip_indicator |-> None, prior_patient_ids |-> <<>>]}

NoVisit == [present |-> FALSE]
Visit(class, location, id, family, given, number, admit, discharge) ==
    [present |-> TRUE, patient_class |-> class, location |-> location,
     admitting_doctor_id |-> None, admitting_doctor_family |-> None,
     admitting_doctor_given |-> None,
     attending_doctor_id |-> id, attending_doctor_family |-> family,
     attending_doctor_given |-> given, visit_number |-> number,
     admit_datetime |-> admit, discharge_datetime |-> discharge]

Visits ==
    {NoVisit,
     Visit(<<"I">>, <<"Ward", "^", "01", "^", "01">>, <<"123">>, <<"Ali">>,
           <<"Ahmed">>, <<"V1">>, AdmitStamp, None),
     Visit(None, None, None, None, None, None, None, None),
     Visit(<<"O">>, <<"ER", "\r", "PID", "|", "x">>, <<"77">>, <<"Bo">>, None,
           <<"V", "|", "2">>, LooseStamp, IsoStamp)}

Mrgs ==
    {<<>>,
     [prior_patient_id |-> <<"OLDPID">>, prior_visit_number |-> <<"OLDV">>],
     [prior_patient_id |-> <<"P", "|", "Q">>]}

Stamp(k) == ToString(k)

Al1Entry(k) ==
    IF k = 2 THEN [allergen |-> <<"nu", "|", "ts">>, reaction |-> <<"r", "^", "2">>]
    ELSE [allergen |-> <<"allergen" \o Stamp(k)>>, reaction |-> <<"rash">>,
          severity |-> <<"SV">>]

Dg1Entry(k) ==
    IF k = 2 THEN [diagnosis_code |-> <<"J", "|", "45">>,
                   diagnosis_desc |-> <<"a", "&", "b">>]
    ELSE [set_id |-> <<Stamp(k)>>, diagnosis_type |-> <<"F">>,
          diagnosis_code |-> <<"code" \o Stamp(k)>>,
          diagnosis_desc |-> <<"diagnosis" \o Stamp(k)>>]

Pr1Entry(k) ==
    IF k = 2 THEN [procedure_code |-> <<"P", "^", "9">>,
                   procedure_desc |-> <<"x", "~", "y">>]
    ELSE [set_id |-> <<Stamp(k)>>, procedure_code |-> <<"proc" \o Stamp(k)>>,
          procedure_desc |-> <<"procedure" \o Stamp(k)>>]

Nk1Entry(k) ==
    IF k = 2 THEN [name |-> <<"Kin", "|", "2">>, relationship |-> None,
                   phone_number |-> None]
    ELSE [name |-> <<"kin" \o Stamp(k)>>, relationship |-> <<"SPO">>,
          phone_number |-> <<"555" \o Stamp(k)>>]

Gt1Entry(k) ==
    IF k = 2 THEN [guarantor_number |-> None, guarantor_name |-> <<"G", "^", "2">>,
                   guarantor_address |-> None, guarantor_phone |-> None]
    ELSE [guarantor_number |-> <<"g" \o Stamp(k)>>,
          guarantor_name |-> <<"guarantor" \o Stamp(k)>>,
          guarantor_address |-> <<"street" \o Stamp(k)>>,
          guarantor_phone |-> <<"777" \o Stamp(k)>>]

In1Entry(k) ==
    IF k = 2 THEN [insurance_plan_id |-> <<"PL", "|", "2">>,
                   insurance_company_id |-> None,
                   insurance_company_name |-> None,
                   insured_id |-> None, insured_name |-> None]
    ELSE [insurance_plan_id |-> <<"plan" \o Stamp(k)>>,
          insurance_company_id |-> <<"co" \o Stamp(k)>>,
          insurance_company_name |-> <<"company" \o Stamp(k)>>,
          insured_id |-> <<"insured" \o Stamp(k)>>,
          insured_name |-> <<"holder" \o Stamp(k)>>]

ListKeys == <<"al1", "dg1", "pr1", "nk1", "gt1", "in1">>

\* How many entries each list has: MaxEntries at most in all.
ListLengths ==
    {n \in [1..6 -> 0..MaxEntries] :
        n[1] + n[2] + n[3] + n[4] + n[5] + n[6] <= MaxEntries}

Payload(h, p, d, v, m, n) ==
    [present |-> TRUE, header |-> h, patient |-> p, pd1 |-> d, visit |-> v,
     mrg |-> m,
     al1 |-> [k \in 1..n[1] |-> Al1Entry(k)],
     dg1 |-> [k \in 1..n[2] |-> Dg1Entry(k)],
     pr1 |-> [k \in 1..n[3] |-> Pr1Entry(k)],
     nk1 |-> [k \in 1..n[4] |-> Nk1Entry(k)],
     gt1 |-> [k \in 1..n[5] |-> Gt1Entry(k)],
     in1 |-> [k \in 1..n[6] |-> In1Entry(k)]]

NoLists == [i \in 1..6 |-> 0]

\* The requests: every header, patient, pd1, visit and mrg together without
\* list entries, and every choice of list entries with a plain header and
\* patient.
Payloads ==
    {Payload(h, p, d, v, m, NoLists) :
        h \in Headers, p \in Patients, d \in Pd1s, v \in Visits, m \in Mrgs}
    \cup
    {Payload(h, p, d, v, m, n) :
        h \in {x \in Headers : x.message_control_id = <<"MSG01">>},
        p \in {x \in Patients : x.name_given = <<"John">>},
        d \in Pd1s, v \in Visits, m \in Mrgs, n \in ListLengths}

\* str(uuid.uuid4()): no two calls return the same, and k numbers the calls
\* of a request in the order they stand in the code.
Uuid4(k) == <<"uuid4#" \o ToString(k)>>

Hl7Init ==
    /\ pc = "start"
    /\ HL7APY_AVAILABLE \in BOOLEAN
    /\ payload \in Payloads
    /\ hl7 = NoHl7
    /\ hl7apy_log = "none"
    /\ parsed = NoParsed
    /\ UtilIdle
    /\ ItiIdle

\* POST /convert/json-to-hl7.  The clock is read twice and may advance in
\* between; when hl7apy is there, its parse of the message succeeds or fails.
ApiJsonToHl7 ==
    /\ pc = "start"
    /\ \E t1 \in 0..MaxTick : \E t2 \in t1..MaxTick : \E conforms \in BOOLEAN :
          /\ hl7' = json_to_hl7_full(payload, UtcNow(t1), UtcNow(t2), Uuid4(1),
                                     HL7APY_AVAILABLE, conforms)
          /\ hl7apy_log' =
                 IF AssembledMessage(payload, UtcNow(t1), UtcNow(t2),
                                     Uuid4(1)).ok
                 THEN Hl7apyLog(HL7APY_AVAILABLE, conforms)
                 ELSE "none"
    /\ pc' = IF hl7'.ok THEN "hl7" ELSE "hl7_error"
    /\ UNCHANGED <<s, out, HL7APY_AVAILABLE, payload, parsed,
                   obj, xml, response,
                   xml_in, json>>

\* POST /convert/hl7-to-json on the text the encoder returned.
ApiHl7ToJson ==
    /\ pc = "hl7"
    /\ parsed' = hl7_full_to_json(hl7.text)
    /\ pc' = "json"
    /\ UNCHANGED <<s, out, HL7APY_AVAILABLE, payload, hl7, hl7apy_log,
                   obj, xml, response,
                   xml_in, json>>

Hl7Next == ApiJsonToHl7 \/ ApiHl7ToJson

SpecHl7 == Hl7Init /\ [][Hl7Next]_vars

(***************************************************************************)
(* The HL7 parser applied to bounded message texts                         *)
(***************************************************************************)
\* The segments of a message text.
MaxSegments == 2

SampleHeader == CHOOSE h \in Headers : h.message_control_id = <<"MSG01">>
SamplePatient == CHOOSE p \in Patients : p.name_given = <<"John">>
SampleVisit == CHOOSE v \in Visits : v.present /\ v.visit_number = <<"V1">>
SamplePd1 == CHOOSE d \in Pd1s : d.present /\ d.vip_indicator = <<"Y">>
SampleMrg == CHOOSE m \in Mrgs : DOMAIN m = {"prior_patient_id", "prior_visit_number"}

\* Each segment the encoder writes, in full.
FullSegments ==
    {build_msh(SampleHeader, UtcNow(0), Uuid4(1)),
     <<"EVN", "|", "A01", "|">> \o UtcNow(0),
     build_pid(SamplePatient).seg,
     Pd1Segment(SamplePd1), Pv1Segment(SampleVisit), Pv2Segment(SampleVisit),
     MrgSegment(SampleMrg), Al1Segment(Al1Entry(1)), Dg1Segment(Dg1Entry(1)),
     Pr1Segment(Pr1Entry(1)), Nk1Segment(Nk1Entry(1)), Gt1Segment(Gt1Entry(1)),
     In1Segment(In1Entry(1))}

\* The same cut after the segment name, a segment of an unknown name and a
\* blank one.
SampleSegments ==
    FullSegments \cup {<<Head(seg)>> : seg \in FullSegments}
        \cup {<<"ZZZ", "|", "x">>, <<" ">>}

\* Every message of MaxSegments segments at most, in any order.
MessageTexts ==
    {Join(segs, "\r") :
        segs \in UNION {[1..n -> SampleSegments] : n \in 0..MaxSegments}}

ParseInit ==
    /\ pc = "start"
    /\ s \in MessageTexts
    /\ out = <<>>
    /\ Hl7Idle
    /\ ItiIdle

\* hl7_full_to_json(s)
Hl7FullToJson ==
    /\ pc = "start"
    /\ parsed' = hl7_full_to_json(s)
    /\ pc' = "hl7_full_to_json"
    /\ UNCHANGED <<s, out, HL7APY_AVAILABLE, payload, hl7, hl7apy_log,
                   obj, xml, response,
                   xml_in, json>>

ParseNext == Hl7FullToJson

SpecParse == ParseInit /\ [][ParseNext]_vars

(***************************************************************************)
(* XML                                                                     *)
(*                                                                         *)
(* An element is [tag, attrib, text, base64, children]: the tag is         *)
(* <<prefix, local name>> (the prefix "" for no namespace), attrib is the  *)
(* sequence of <<name, value>> in the order they were set, and base64 is   *)
(* the text of an element whose text is the base64 of bytes.  The XML text *)
(* ElementTree writes is a sequence of markup tokens: the declaration,     *)
(* start tags, end tags, empty-element tags and character data, each with  *)
(* the very characters written (escapes included).                         *)
(***************************************************************************)
SOAP_NS ==
    [s   |-> <<"http://www.w3.org/2003/05/soap-envelope">>,
     a   |-> <<"http://www.w3.org/2005/08/addressing">>,
     xds |-> <<"urn:ihe:iti:xds-b:2007">>,
     rim |-> <<"urn:oasis:names:tc:ebxml-regrep:xsd:rim:3.0">>,
     lcm |-> <<"urn:oasis:names:tc:ebxml-regrep:xsd:lcm:3.0">>]

\* The registered prefixes, in sorted order.
Prefixes == <<"a", "lcm", "rim", "s", "xds">>

SUBMISSIONSET_UNIQUEID_SCHEME ==
    <<"urn:uuid:", "96fdda7c-d067-4183-912e-bf5ee74998a8">>
UNIQUEID_SCHEME == <<"urn:uuid:", "58a6f841-87b3-4a3e-92fd-a8ffeff98427">>
OBJECTTYPE_ONDEMAND == <<"urn:uuid:", "34268e47-fdf5-41a6-ba33-82133c465248">>
OBJECTTYPE_STABLE == <<"urn:uuid:", "7edca82f-054d-47f2-a032-9b2a5b5186c1">>

\* ET.Element / ET.SubElement with its attributes, text and children
Element(tag, attrib, text, children) ==
    [tag |-> tag, attrib |-> attrib, text |-> text, base64 |-> EmptyRun,
     children |-> children]

Token(kind, tag, attrib, text, base64) ==
    [kind |-> kind, tag |-> tag, attrib |-> attrib, text |-> text,
     base64 |-> base64]

\* ElementTree's _escape_cdata
escape_cdata(text) ==
    Replace(Replace(Replace(text, "&", <<"&", "a", "m", "p", ";">>),
                    "<", <<"&", "l", "t", ";">>),
            ">", <<"&", "g", "t", ";">>)

\* ElementTree's _escape_attrib
escape_attrib(text) ==
    Replace(Replace(Replace(Replace(escape_cdata(text),
        "\"", <<"&", "q", "u", "o", "t", ";">>),
        "\r", <<"&", "#", "1", "3", ";">>),
        "\n", <<"&", "#", "1", "0", ";">>),
        "\t", <<"&", "#", "0", "9", ";">>)

\* ElementTree's _serialize_xml: an element without text and children is
\* written as an empty-element tag.
RECURSIVE Serialize(_)
Serialize(el) ==
    LET attrib == [i \in 1..Len(el.attrib) |->
                      <<el.attrib[i][1], escape_attrib(el.attrib[i][2])>>]
        text   == IF Truthy(el.text)
                  THEN <<Token("text", <<>>, <<>>, escape_cdata(el.text),
                               EmptyRun)>>
                  ELSE IF RunLen(el.base64) > 0
                  THEN <<Token("base64", <<>>, <<>>, <<>>, el.base64)>>
                  ELSE <<>>
    IN  IF text = <<>> /\ el.children = <<>>
        THEN <<Token("empty", el.tag, attrib, <<>>, EmptyRun)>>
        ELSE <<Token("start", el.tag, attrib, <<>>, EmptyRun)>>
                 \o text
                 \o Cat([i \in 1..Len(el.children) |->
                            Serialize(el.children[i])])
                 \o <<Token("end", el.tag, <<>>, <<>>, EmptyRun)>>

\* The prefixes of the tags of an element and its descendants.
RECURSIVE PrefixesOf(_)
PrefixesOf(el) ==
    {el.tag[1]} \cup UNION {PrefixesOf(el.children[i]) :
                               i \in 1..Len(el.children)}

\* The xmlns attributes of the root: the namespaces in use, by prefix.
RECURSIVE Xmlns(_, _)
Xmlns(used, prefixes) ==
    IF prefixes = <<>> THEN <<>>
    ELSE (IF Head(prefixes) \in used
          THEN <<<<"xmlns:" \o Head(prefixes), SOAP_NS[Head(prefixes)]>>>>
          ELSE <<>>) \o Xmlns(used, Tail(prefixes))

\* ET.tostring(root, encoding="utf-8", xml_declaration=True).decode("utf-8")
tostring(root) ==
    <<Token("declaration", <<>>, <<>>, <<>>, EmptyRun)>>
        \o Serialize([root EXCEPT
                         !.attrib = Xmlns(PrefixesOf(root), Prefixes) \o @])

\* The entities the serializer writes, and the character each stands for.
Entities ==
    {<<<<"&", "a", "m", "p", ";">>, "&">>,
     <<<<"&", "l", "t", ";">>, "<">>,
     <<<<"&", "g", "t", ";">>, ">">>,
     <<<<"&", "q", "u", "o", "t", ";">>, "\"">>,
     <<<<"&", "#", "1", "3", ";">>, "\r">>,
     <<<<"&", "#", "1", "0", ";">>, "\n">>,
     <<<<"&", "#", "0", "9", ";">>, "\t">>}

\* The characters an XML parser reads from the characters written.
RECURSIVE unescape(_)
unescape(text) ==
    IF text = <<>> THEN <<>>
    ELSE LET hits == {e \in Entities : StartsWith(text, e[1])}
         IN  IF hits = {} THEN <<Head(text)>> \o unescape(Tail(text))
             ELSE LET e == CHOOSE x \in hits : TRUE
                  IN  <<e[2]>> \o unescape(Drop(text, Len(e[1])))

(***************************************************************************)
(* build_iti41_ebxml                                                       *)
(***************************************************************************)
\* f"urn:uuid:{uuid.uuid4()}"
UrnUuid(k) == <<"urn:uuid:">> \o Uuid4(k)

\* str.lower(): the opaque atoms of the model's texts are in lower case.
Lower(v) ==
    [i \in 1..Len(v) |->
        CASE v[i] = "P" -> "p" [] v[i] = "D" -> "d" [] v[i] = "F" -> "f"
          [] OTHER -> v[i]]

\* add_slot(parent, name, values): the Slot element it appends.
Slot(name, values) ==
    Element(<<"rim", "Slot">>, <<<<"name", name>>>>, None,
            <<Element(<<"rim", "ValueList">>, <<>>, None,
                      [i \in 1..Len(values) |->
                          Element(<<"rim", "Value">>, <<>>, values[i], <<>>)])>>)

\* A child element with a LocalizedString in it.
Localized(tag, value) ==
    Element(<<"rim", tag>>, <<>>, None,
            <<Element(<<"rim", "LocalizedString">>, <<<<"value", value>>>>,
                      None, <<>>)>>)

ExternalIdentifier(id, registryObject, scheme, value) ==
    Element(<<"rim", "ExternalIdentifier">>,
            <<<<"id", id>>, <<"registryObject", registryObject>>,
              <<"identificationScheme", scheme>>>>,
            None,
            <<Element(<<"rim", "Value">>, <<>>, value, <<>>)>>)

Classification(scheme, node, id) ==
    Element(<<"rim", "Classification">>,
            <<<<"classificationScheme", scheme>>,
              <<"classificationNode", node>>, <<"id", id>>>>,
            None, <<>>)

\* Python's None where the base64 text of a document is expected.
NoDocument == [unit |-> <<>>, reps |-> 0, tail |-> <<>>, none |-> TRUE]

\* bool(obj.document_base64)
HasDocument(o) ==
    o.document_base64 # NoDocument /\ RunLen(o.document_base64) > 0

\* base64.b64decode(doc) or, when that raises, doc.encode("utf-8")
DocBytes(doc) ==
    LET d == b64decode(doc) IN IF d.ok THEN d.bytes ELSE Utf8OfRun(doc)

\* The id of the RegistryPackage, a slip: the submission id itself.
RegistryPackageIdBare(submission_id) == submission_id

\* f"rs.{submission_id}"
RegistryPackageId(submission_id) == <<"rs.">> \o submission_id

\* The formatCode of a mime type.
FormatCode(mime_type) ==
    IF Contains(Lower(IF mime_type = None THEN <<>> ELSE mime_type),
                <<"p", "d", "f">>)
    THEN <<"urn:ihe:iti:xds-sd:pdf:2008">>
    ELSE <<"urn:ksa-ehealth:format:unknown">>

\* The RegistryPackage (SubmissionSet) element.
RegistryPackage(o, submission_id, now) ==
    LET id == RegistryPackageId(submission_id)
    IN  Element(<<"rim", "RegistryPackage">>, <<<<"id", id>>>>, None,
            <<Localized("Name", <<"SubmissionSet">>),
              ExternalIdentifier(UrnUuid(3), id,
                                 SUBMISSIONSET_UNIQUEID_SCHEME, submission_id),
              Slot(<<"submissionTime">>, <<OrElse(o.creation_time, now)>>)>>
            \o (IF Truthy(o.source_id)
                THEN <<Slot(<<"sourceId">>, <<o.source_id>>)>> ELSE <<>>)
            \o (IF Truthy(o.repository_unique_id)
                THEN <<Slot(<<"repositoryUniqueID">>,
                            <<o.repository_unique_id>>)>>
                ELSE <<>>))

\* The ExtrinsicObject (DocumentEntry) element.
ExtrinsicObject(o, doc_id, now) ==
    Element(<<"rim", "ExtrinsicObject">>,
        <<<<"id", doc_id>>,
          <<"objectType", OrElse(o.object_type, OBJECTTYPE_ONDEMAND)>>,
          <<"mimeType", OrElse(o.mime_type, <<"text/xml">>)>>>>,
        None,
        <<Localized("Name", <<"Clinical Document">>),
          Localized("Description", <<"Document (CDA or other)">>)>>
        \o (IF Truthy(o.class_code)
            THEN <<Classification(<<"urn:ksa-ehealth:classcodes:2023">>,
                                  o.class_code, UrnUuid(5))>>
            ELSE <<>>)
        \o (IF Truthy(o.type_code)
            THEN <<Classification(
                      <<"urn:uuid:", "aa543740-bdda-424e-8c96-df4873be8500">>,
                      o.type_code, UrnUuid(6))>>
            ELSE <<>>)
        \o <<ExternalIdentifier(UrnUuid(7), doc_id, UNIQUEID_SCHEME, doc_id),
             ExternalIdentifier(UrnUuid(8), doc_id, UNIQUEID_SCHEME,
                                o.patient_id)>>
        \o (IF Truthy(o.source_id)
            THEN <<ExternalIdentifier(UrnUuid(9), doc_id, UNIQUEID_SCHEME,
                                      o.source_id)>>
            ELSE <<>>)
        \o <<Slot(<<"creationTime">>, <<OrElse(o.creation_time, now)>>)>>
        \o (IF HasDocument(o)
            THEN LET hs == sha1_and_size(DocBytes(o.document_base64))
                 IN  <<Slot(<<"hash">>, <<hs.h>>),
                       Slot(<<"size">>, <<hs.size>>),
                       Slot(<<"formatCode">>, <<FormatCode(o.mime_type)>>)>>
            ELSE <<>>)
        \o (IF Truthy(o.practice_setting_code)
            THEN <<Slot(<<"practiceSettingCode">>,
                        <<o.practice_setting_code>>)>>
            ELSE <<>>)
        \o (IF Truthy(o.repository_unique_id)
            THEN <<Slot(<<"repositoryUniqueID">>, <<o.repository_unique_id>>)>>
            ELSE <<>>))

\* The Association of the package with the document entry.
Association(regpkg_id, ex_id) ==
    Element(<<"rim", "Association">>,
        <<<<"id", UrnUuid(10)>>,
          <<"associationType",
            <<"urn:oasis:names:tc:ebxml-regrep:AssociationType:HasMember">>>>,
          <<"sourceObject", regpkg_id>>,
          <<"targetObject", ex_id>>,
          <<"status",
            <<"urn:oasis:names:tc:ebxml-regrep:StatusType:Approved">>>>>>,
        None, <<>>)

\* The demo Document element with the inline base64 of the bytes.
DocumentElement(o, doc_id) ==
    [Element(<<"", "Document">>,
             <<<<"id", doc_id>>,
               <<"mimeType", OrElse(o.mime_type, <<"text/xml">>)>>>>,
             None, <<>>)
        EXCEPT !.base64 = b64encode(DocBytes(o.document_base64))]

\* build_iti41_ebxml(obj): the XML text, or the HTTPException it raises.
\* now1 and now2 are the two readings of the clock; the uuid4 calls are
\* numbered in the order they stand in the code.
\* The source id check, a slip: the root looked for anywhere in the id.
SourceIdRejectedUnlessContained(o) ==
    Truthy(o.source_id) /\ ~Contains(o.source_id, NATIONAL_ORG_ROOT)

\* Whether build_iti41_ebxml raises HTTPException(400) on the source id.
SourceIdRejected(o) ==
    Truthy(o.source_id) /\ ~StartsWith(o.source_id, NATIONAL_ORG_ROOT)

build_iti41_ebxml(o, now1, now2) ==
    IF SourceIdRejected(o)
    THEN [ok |-> FALSE, status |-> 400, xml |-> <<>>]
    ELSE
    LET header ==
            Element(<<"s", "Header">>, <<>>, None,
                <<Element(<<"a", "Action">>, <<>>,
                      Get(o.soap, "action",
                          <<"urn:ihe:iti:2007:ProvideAndRegisterDocumentSet-b">>),
                      <<>>),
                  Element(<<"a", "MessageID">>, <<>>,
                      Get(o.soap, "message_id", Uuid4(1)), <<>>),
                  Element(<<"a", "To">>, <<>>,
                      Get(o.soap, "to", OrElse(o.repository_address, <<>>)),
                      <<>>)>>)
        submission_id == OrElse(o.unique_id, UrnUuid(2))
        regpkg == RegistryPackage(o, submission_id, now1)
        doc_id == OrElse(o.unique_id, UrnUuid(4))
        ex     == ExtrinsicObject(o, doc_id, now2)
        assoc  == Association(regpkg.attrib[1][2], ex.attrib[1][2])
        rol    == Element(<<"rim", "RegistryObjectList">>, <<>>, None,
                          <<regpkg, ex, assoc>>)
        sor    == Element(<<"lcm", "SubmitObjectsRequest">>, <<>>, None,
                          <<rol>>)
        pr     == Element(<<"xds", "ProvideAndRegisterDocumentSetRequest">>,
                      <<>>, None,
                      <<sor>> \o (IF HasDocument(o)
                                  THEN <<DocumentElement(o, ex.attrib[1][2])>>
                                  ELSE <<>>))
        body   == Element(<<"s", "Body">>, <<>>, None, <<pr>>)
        root   == Element(<<"s", "Envelope">>, <<>>, None, <<header, body>>)
    IN  [ok |-> TRUE, status |-> 200, xml |-> tostring(root)]

(***************************************************************************)
(* MTOM/XOP and POST /convert/json-to-iti41                                *)
(***************************************************************************)
\* Whether a token is the start of what the pattern
\* <Document id="{re.escape(doc_id)}"[^>]*> matches: an unprefixed Document
\* tag whose first attribute is id, written with the characters of doc_id.
OpensDocument(tok, doc_id) ==
    /\ tok.kind \in {"start", "empty"}
    /\ tok.tag = <<"", "Document">>
    /\ tok.attrib # <<>>
    /\ tok.attrib[1] = <<"id", doc_id>>

ClosesDocument(tok) == tok.kind = "end" /\ tok.tag = <<"", "Document">>

\* The replacement text of build_iti41_mtom_envelope, as tokens.  The ids
\* and mime types of the model hold no backslash, which the replacement
\* template would interpret.
XopDocument(doc_id, mime_type) ==
    <<Token("start", <<"", "Document">>,
            <<<<"id", doc_id>>, <<"mimeType", mime_type>>>>, <<>>, EmptyRun),
      Token("empty", <<"xop", "Include">>,
            <<<<"href", <<"cid:">> \o doc_id \o <<"@example.com">>>>,
              <<"xmlns:xop", <<"http://www.w3.org/2004/08/xop/include">>>>>>,
            <<>>, EmptyRun),
      Token("end", <<"", "Document">>, <<>>, <<>>, EmptyRun)>>

\* build_iti41_mtom_envelope: re.sub replaces every match, each running
\* from the opening tag to the nearest </Document> after it.
RECURSIVE build_iti41_mtom_envelope(_, _, _)
build_iti41_mtom_envelope(xml_text, doc_id, mime_type) ==
    LET opens == {i \in 1..Len(xml_text) :
                     /\ OpensDocument(xml_text[i], doc_id)
                     /\ \E j \in (i + 1)..Len(xml_text) :
                           ClosesDocument(xml_text[j])}
    IN  IF opens = {} THEN xml_text
        ELSE LET i == SetMin(opens)
                 j == SetMin({k \in (i + 1)..Len(xml_text) :
                                 ClosesDocument(xml_text[k])})
             IN  SubSeq(xml_text, 1, i - 1)
                     \o XopDocument(doc_id, mime_type)
                     \o build_iti41_mtom_envelope(Drop(xml_text, j), doc_id,
                                                  mime_type)

Part(name, filename, content_type, text, bytes) ==
    [name |-> name, filename |-> filename, content_type |-> content_type,
     xml |-> text, bytes |-> bytes]

\* create_mtom_multipart: the encoder's fields and the Content-Type header.
create_mtom_multipart(xml_envelope, doc_bytes, mime_type, doc_id) ==
    LET boundary == <<"uuid:">> \o Uuid4(11)
        cid      == doc_id \o <<"@example.com">>
    IN  [m |-> [boundary |-> boundary,
                parts |->
                  <<Part(<<"rootpart">>, <<"envelope.xml">>,
                         <<"application/xop+xml; type=\"text/xml\"; charset=UTF-8">>,
                         xml_envelope, EmptyRun),
                    Part(cid, <<"document.bin">>, mime_type, <<>>,
                         doc_bytes)>>],
         headers |->
            [ContentType |->
                <<"multipart/related; type=\"application/xop+xml\"; boundary=\"">>
                    \o boundary \o <<"\"">>]]

KILOBYTE == 1024
INLINE_LIMIT_KB == 256

\* doc_size_kb < 256, a slip: at most 256.
IsInlineSizeOrLimit(doc_bytes) ==
    RunLen(doc_bytes) <= INLINE_LIMIT_KB * KILOBYTE

\* doc_size_kb < 256 where doc_size_kb = len(doc_bytes) / 1024.0 (the
\* division by a power of two is exact).
IsInlineSize(doc_bytes) == RunLen(doc_bytes) < INLINE_LIMIT_KB * KILOBYTE

Response(kind, status, media_type, text, multipart) ==
    [status |-> status, media_type |-> media_type, kind |-> kind,
     xml |-> text, multipart |-> multipart]

\* The body of api_json_to_iti41 after build_iti41_ebxml returned built.
api_json_to_iti41(o, built) ==
    IF ~built.ok
    THEN Response("error", built.status, <<"application/json">>, <<>>,
                  NoMultipart)
    ELSE IF ~HasDocument(o)
    THEN Response("xml", 200, <<"application/xml">>, built.xml, NoMultipart)
    ELSE LET doc_bytes == DocBytes(o.document_base64)
             doc_id    == OrElse(o.unique_id, <<"urn:uuid:", "doc-1">>)
             mime_type == OrElse(o.mime_type, <<"text/xml">>)
         IN  IF IsInlineSize(doc_bytes)
             THEN Response("xml", 200, <<"application/xml">>, built.xml,
                           NoMultipart)
             ELSE LET xml_xop == build_iti41_mtom_envelope(built.xml, doc_id,
                                                           mime_type)
                      mtom    == create_mtom_multipart(xml_xop, doc_bytes,
                                                       mime_type, doc_id)
                  IN  Response("multipart", 200, mtom.headers.ContentType,
                               <<>>, mtom.m)

(***************************************************************************)
(* iti41_xml_to_json                                                       *)
(*                                                                         *)
(* The XML parser builds the element tree from the markup.  A tag in a     *)
(* namespace is the text "{uri}local"; a tag in none is "local".           *)
(***************************************************************************)
\* The line ends a parser reads: "\r\n" and a lone "\r" are "\n".
RECURSIVE LineEnds(_)
LineEnds(text) ==
    IF text = <<>> THEN <<>>
    ELSE IF Head(text) = "\r"
    THEN <<"\n">> \o LineEnds(IF Len(text) > 1 /\ text[2] = "\n"
                              THEN Drop(text, 2) ELSE Tail(text))
    ELSE <<Head(text)>> \o LineEnds(Tail(text))

\* The character data a parser reads from the characters written.
CharacterData(text) == unescape(LineEnds(text))

\* The attribute value a parser reads: literal white space is a blank.
AttributeValue(text) ==
    LET v == LineEnds(text)
    IN  unescape([i \in 1..Len(v) |->
                     IF v[i] \in {"\n", "\t"} THEN " " ELSE v[i]])

\* The name of the attribute that declares a prefix.
XmlnsName(prefix) == IF prefix = "" THEN "xmlns" ELSE "xmlns:" \o prefix

\* The prefixes of the tags of a document, and no prefix.
TagPrefixes(x) == {""} \cup {x[i].tag[1] : i \in {k \in 1..Len(x) : x[k].tag # <<>>}}

IsDeclaration(name, P) == \E p \in P : name = XmlnsName(p)

\* The namespaces an element declares, by prefix.
Declarations(tok, P) ==
    [p \in {q \in P : \E k \in 1..Len(tok.attrib) :
                         tok.attrib[k][1] = XmlnsName(q)} |->
        LET k == SetMin({j \in 1..Len(tok.attrib) :
                            tok.attrib[j][1] = XmlnsName(p)})
        IN  AttributeValue(tok.attrib[k][2])]

\* The attributes of an element that are not declarations, as read.
Attributes(tok, P) ==
    LET keep == SelectSeq(tok.attrib, LAMBDA a : ~IsDeclaration(a[1], P))
    IN  [i \in 1..Len(keep) |-> <<keep[i][1], AttributeValue(keep[i][2])>>]

\* The tag of an element under the namespaces in scope.
QualifiedTag(tag, scope) ==
    IF tag[1] \in DOMAIN scope /\ scope[tag[1]] # <<>>
    THEN <<"{">> \o scope[tag[1]] \o <<"}", tag[2]>>
    ELSE <<tag[2]>>

\* The namespaces in scope in an element: those it declares and, for the
\* other prefixes, those in scope around it.
Scope(ns, d) ==
    [p \in DOMAIN ns \cup DOMAIN d |-> IF p \in DOMAIN d THEN d[p] ELSE ns[p]]

\* The character data and the base64 run that follow a start tag.
TextAfter(x, i) ==
    IF x[i].kind = "start" /\ i < Len(x) /\ x[i + 1].kind = "text"
    THEN CharacterData(x[i + 1].text) ELSE None

RunAfter(x, i) ==
    IF x[i].kind = "start" /\ i < Len(x) /\ x[i + 1].kind = "base64"
    THEN x[i + 1].base64 ELSE EmptyRun

\* The element of the tag at token i, given the namespaces in scope and its
\* parsed content.  An undeclared prefix and an end tag of another name are
\* not well-formed.
Closed(x, i, scope, P, inner) ==
    [ok   |-> /\ x[i].tag[1] = "" \/ x[i].tag[1] \in DOMAIN scope
              /\ inner.ok
              /\ \/ x[i].kind = "empty"
                 \/ /\ inner.next - 1 <= Len(x)
                    /\ x[inner.next - 1].kind = "end"
                    /\ x[inner.next - 1].tag = x[i].tag,
     el   |-> [Element(QualifiedTag(x[i].tag, scope), Attributes(x[i], P),
                       TextAfter(x, i), inner.els)
                  EXCEPT !.base64 = RunAfter(x, i)],
     next |-> inner.next]

\* An element and the elements that follow it.
Joined(first, rest) ==
    [ok   |-> first.ok /\ rest.ok,
     els  |-> <<first.el>> \o rest.els,
     next |-> rest.next]

\* ParseElement: the element that opens at token i; ParseContent: the
\* elements from token i up to an end tag; each with the token after it.
RECURSIVE ParseElement(_, _, _, _)
RECURSIVE ParseContent(_, _, _, _)
RECURSIVE ParseInScope(_, _, _, _)
RECURSIVE ParseFollowers(_, _, _, _)
ParseInScope(x, i, scope, P) ==
    Closed(x, i, scope, P,
           IF x[i].kind = "empty"
           THEN [ok |-> TRUE, els |-> <<>>, next |-> i + 1]
           ELSE ParseContent(x, i + 1, scope, P))

ParseElement(x, i, ns, P) ==
    ParseInScope(x, i, Scope(ns, Declarations(x[i], P)), P)

ParseFollowers(x, first, ns, P) ==
    Joined(first, ParseContent(x, first.next, ns, P))

ParseContent(x, i, ns, P) ==
    IF i > Len(x) THEN [ok |-> FALSE, els |-> <<>>, next |-> i + 1]
    ELSE IF x[i].kind = "end" THEN [ok |-> TRUE, els |-> <<>>, next |-> i + 1]
    ELSE IF x[i].kind \in {"text", "base64"} THEN ParseContent(x, i + 1, ns, P)
    ELSE ParseFollowers(x, ParseElement(x, i, ns, P), ns, P)

\* The document whose root element was parsed up to token n.
ParsedDocument(doc, n) == [ok |-> doc.ok /\ doc.next = n + 1, root |-> doc.el]

\* ET.iterparse(io.StringIO(xml_text)) run to its end: the root element,
\* or the ParseError.
iterparse(xml_text) ==
    LET i == IF xml_text # <<>> /\ xml_text[1].kind = "declaration"
             THEN 2 ELSE 1
    IN  IF i > Len(xml_text) \/ xml_text[i].kind \notin {"start", "empty"}
        THEN [ok |-> FALSE, root |-> Element(<<>>, <<>>, None, <<>>)]
        ELSE ParsedDocument(
                 ParseElement(xml_text, i, <<>>, TagPrefixes(xml_text)),
                 Len(xml_text))

\* The tag left as it was read, a slip.
TagAsRead(tag) == tag

\* el.tag.split("}", 1)[1] when "}" is in the tag
LocalTag(tag) ==
    IF Contains(tag, <<"}">>)
    THEN Drop(tag, SetMin({k \in 1..Len(tag) : tag[k] = "}"}))
    ELSE tag

\* The loop over the parsed elements that rewrites every tag.
RECURSIVE StripNamespaces(_)
StripNamespaces(el) ==
    [el EXCEPT !.tag = LocalTag(@),
               !.children = [i \in 1..Len(@) |-> StripNamespaces(@[i])]]

\* The elements below an element, in document order.
RECURSIVE Descendants(_)
Descendants(el) ==
    Cat([i \in 1..Len(el.children) |->
            <<el.children[i]>> \o Descendants(el.children[i])])

\* el.findall(".//tag"); el.find(".//tag") is its first element, or None
findall(el, tag) == SelectSeq(Descendants(el), LAMBDA e : e.tag = tag)

\* el.get(name)
GetAttribute(el, name) ==
    LET hits == {k \in 1..Len(el.attrib) : el.attrib[k][1] = name}
    IN  IF hits = {} THEN None ELSE el.attrib[SetMin(hits)][2]

\* out[key] = value
Put(d, key, value) ==
    [k \in DOMAIN d \cup {key} |-> IF k = key THEN value ELSE d[k]]

\* The text of a Value when the element is not None and the text not empty.
ValueText(values) ==
    IF values # <<>> /\ Truthy(Head(values).text) THEN Head(values).text
    ELSE <<>>

\* find(".//Value") of an element has text that is not empty, and the text.
HasValueText(el) == ValueText(findall(el, <<"Value">>)) # <<>>
TextOfValue(el) == ValueText(findall(el, <<"Value">>))

\* The texts of the first Value of each ExternalIdentifier that has one.
TextsOfValues(eis) == [i \in 1..Len(eis) |-> TextOfValue(eis[i])]

ExternalIdentifierValues(extrinsic) ==
    TextsOfValues(SelectSeq(findall(extrinsic, <<"ExternalIdentifier">>),
                            HasValueText))

\* One turn of the loop over the Slot elements of the ExtrinsicObject.
PutSlot(d, name, text) ==
    IF Truthy(name) /\ text # <<>> THEN Put(d, name, text) ELSE d

\* The loop over the Slot elements of the ExtrinsicObject.
RECURSIVE PutSlots(_, _)
PutSlots(d, slots) ==
    IF slots = <<>> THEN d
    ELSE PutSlots(PutSlot(d, GetAttribute(Head(slots), "name"),
                          TextOfValue(Head(slots))),
                  Tail(slots))

\* One turn of the loop over the Slot elements of the RegistryPackage.
PutIfSubmissionTime(d, name, text) ==
    IF name = <<"submissionTime">> /\ text # <<>>
    THEN Put(d, <<"submissionTime">>, text) ELSE d

\* The loop over the Slot elements of the RegistryPackage.
RECURSIVE PutSubmissionTime(_, _)
PutSubmissionTime(d, slots) ==
    IF slots = <<>> THEN d
    ELSE PutSubmissionTime(
             PutIfSubmissionTime(d, GetAttribute(Head(slots), "name"),
                                 TextOfValue(Head(slots))),
             Tail(slots))

\* What the ExtrinsicObject adds to the result.
PutExtrinsic(out0, extrinsic) ==
    PutSlots(
        Put(Put(Put(Put(out0,
            <<"document_id">>, GetAttribute(extrinsic, "id")),
            <<"mimeType">>, GetAttribute(extrinsic, "mimeType")),
            <<"objectType">>, GetAttribute(extrinsic, "objectType")),
            <<"externalIdentifiers">>, ExternalIdentifierValues(extrinsic)),
        findall(extrinsic, <<"Slot">>))

\* The first element of a list put through a step, when there is one.
PutFirstExtrinsic(d, found) ==
    IF found # <<>> THEN PutExtrinsic(d, Head(found)) ELSE d

PutFirstRegistryPackage(d, found) ==
    IF found # <<>> THEN PutSubmissionTime(d, findall(Head(found), <<"Slot">>))
    ELSE d

\* The result for the tree with its namespaces stripped.
FlatResult(root) ==
    PutFirstRegistryPackage(
        PutFirstExtrinsic(<<>>, findall(root, <<"ExtrinsicObject">>)),
        findall(root, <<"RegistryPackage">>))

\* The result for the parsed document, or HTTPException(500).
ResultOf(it) ==
    IF ~it.ok THEN [ok |-> FALSE, status |-> 500, json |-> <<>>]
    ELSE [ok |-> TRUE, status |-> 200,
          json |-> FlatResult(StripNamespaces(it.root))]

\* iti41_xml_to_json(xml_text): the flat result, or the HTTPException(500)
\* raised when the text does not parse.
iti41_xml_to_json(xml_text) == ResultOf(iterparse(xml_text))

(***************************************************************************)
(* The ITI-41 encoder applied to bounded requests                          *)
(***************************************************************************)
\* The four-character groups of a short document, and how many groups a
\* long one is away from the inline limit.
MaxGroups == 1

\* The number of whole three-byte groups below the inline limit.
GroupsAtLimit == (INLINE_LIMIT_KB * KILOBYTE) \div 3

DocGroups ==
    0..MaxGroups \cup {GroupsAtLimit + d : d \in (0 - MaxGroups)..MaxGroups}

\* What follows the groups: nothing, one or two padded bytes, a character
\* too many (which base64 rejects), padding alone, a character that is
\* not ASCII, and characters base64 skips.
DocTails ==
    {<<>>, <<"Q", "Q", "=", "=">>, <<"Q", "U", "E", "=">>, <<"Q">>,
     <<"=", "=">>, <<"é">>, <<"!", "Q", "U", "F", "B">>}

Documents ==
    {NoDocument}
        \cup {Run(<<"Q", "U", "F", "B">>, n, tail) :
                 n \in DocGroups, tail \in DocTails}

MimeTypes ==
    {None, <<"text/xml">>, <<"application/", "p", "d", "f">>,
     <<"application/", "P", "D", "F">>}

UniqueIds ==
    {None, <<"urn:uuid:", "doc-large">>, <<"urn:uuid:", "doc-1">>,
     <<"doc", "&", "1">>}

SoapHeaders ==
    {<<>>,
     [action |-> <<"urn:ihe:iti:2007:ProvideAndRegisterDocumentSet-b">>,
      message_id |-> <<"urn:uuid:", "msg-1">>,
      to |-> <<"https://repository.example/xds">>]}

XdsPatientId ==
    <<"1234567890", "^", "^", "^", "&">> \o ASSIGNING_AUTHORITY_HEALTH_ID
        \o <<"&", "ISO">>

\* The optional codes of a request: none of them, or all.
Codings ==
    {[class_code |-> None, type_code |-> None, practice_setting_code |-> None,
      object_type |-> None, repository_unique_id |-> None,
      repository_address |-> None],
     [class_code |-> <<"REPORTS">>, type_code |-> <<"11488-4">>,
      practice_setting_code |-> <<"General Medicine">>,
      object_type |-> OBJECTTYPE_STABLE,
      repository_unique_id |-> NATIONAL_ORG_ROOT \o <<".9.1">>,
      repository_address |-> <<"https://repository.example">>]}

CreationTimes == {None, Hl7DateTime}

SourceIds == {None, NATIONAL_ORG_ROOT \o <<".12345">>}

\* Source ids of a SOAPInput built without its validators (model_construct,
\* or set after construction): the empty text, an id under another root and
\* one that holds the national root but does not start with it.
UnvalidatedSourceIds ==
    {<<>>, <<"1.2.840.10008">>, <<"urn:oid:">> \o NATIONAL_ORG_ROOT}

\* SOAPInput(...)
SOAPInput(soap, coding, unique_id, doc, mime_type, creation_time, source_id) ==
    [soap |-> soap,
     repository_address |-> coding.repository_address,
     patient_id |-> XdsPatientId,
     class_code |-> coding.class_code,
     type_code |-> coding.type_code,
     practice_setting_code |-> coding.practice_setting_code,
     unique_id |-> unique_id,
     object_type |-> coding.object_type,
     document_base64 |-> doc,
     mime_type |-> mime_type,
     creation_time |-> creation_time,
     source_id |-> source_id,
     repository_unique_id |-> coding.repository_unique_id]

PlainSoap == CHOOSE h \in SoapHeaders : h # <<>>
PlainCoding == CHOOSE c \in Codings : c.class_code = None

\* Every combination of the metadata with a few documents, every document
\* with every mime type and unique id under plain metadata (requests the
\* validators accepted), and requests whose source id was never validated,
\* without a document, with a short one and with one at the inline limit.
SOAPInputs ==
    {SOAPInput(h, c, u, d, <<"text/xml">>, t, src) :
        h \in SoapHeaders, c \in Codings, u \in UniqueIds,
        d \in {x \in Documents : x = NoDocument \/ x.tail = <<"Q", "Q", "=", "=">>},
        t \in CreationTimes, src \in SourceIds}
    \cup
    {SOAPInput(PlainSoap, PlainCoding, u, d, m, t, None) :
        u \in UniqueIds, d \in Documents, m \in MimeTypes,
        t \in CreationTimes}
    \cup
    {SOAPInput(h, PlainCoding, u, d, <<"text/xml">>, None, src) :
        h \in SoapHeaders, u \in UniqueIds,
        d \in {x \in Documents :
                  \/ x = NoDocument
                  \/ x.tail = <<>> /\ x.reps \in {1, GroupsAtLimit + 1}},
        src \in UnvalidatedSourceIds}

ItiInit ==
    /\ pc = "start"
    /\ obj \in SOAPInputs
    /\ xml = NoXml
    /\ response = NoResponse
    /\ DecodeIdle
    /\ UtilIdle
    /\ Hl7Idle

\* build_iti41_ebxml(obj) called on its own.  The clock is read twice and
\* may advance in between.
BuildIti41Ebxml ==
    /\ pc = "start"
    /\ \E t1 \in 0..MaxTick : \E t2 \in t1..MaxTick :
          xml' = build_iti41_ebxml(obj, UtcNow(t1), UtcNow(t2))
    /\ pc' = IF xml'.ok THEN "ebxml" ELSE "ebxml_error"
    /\ UNCHANGED <<s, out, HL7APY_AVAILABLE, payload, hl7, hl7apy_log, parsed,
                   obj, response,
                   xml_in, json>>

\* POST /convert/json-to-iti41
ApiJsonToIti41 ==
    /\ pc = "start"
    /\ \E t1 \in 0..MaxTick : \E t2 \in t1..MaxTick :
          xml' = build_iti41_ebxml(obj, UtcNow(t1), UtcNow(t2))
    /\ response' = api_json_to_iti41(obj, xml')
    /\ pc' = "iti41"
    /\ UNCHANGED <<s, out, HL7APY_AVAILABLE, payload, hl7, hl7apy_log, parsed,
                   obj,
                   xml_in, json>>

ItiNext == BuildIti41Ebxml \/ ApiJsonToIti41

SpecIti == ItiInit /\ [][ItiNext]_vars

(***************************************************************************)
(* The ITI-41 decoder applied to encoded requests                          *)
(***************************************************************************)
\* A unique id with a carriage return in it.
LineEndUniqueId == <<"doc", "\r", "1">>

\* A short document, and one above the inline limit.
ShortDocument == Run(<<"Q", "U", "F", "B">>, 1, <<"Q", "Q", "=", "=">>)
LongDocument == Run(<<"Q", "U", "F", "B">>, GroupsAtLimit + 1, <<>>)

\* Requests the validators accepted: the metadata in every combination
\* without a document and with a short one, and every mime type with a
\* short and a long document.
DecodedInputs ==
    {SOAPInput(PlainSoap, c, u, d, <<"text/xml">>, t, src) :
        c \in Codings, u \in UniqueIds \cup {LineEndUniqueId},
        d \in {NoDocument, ShortDocument}, t \in CreationTimes,
        src \in SourceIds \cup {<<>>}}
    \cup
    {SOAPInput(h, PlainCoding, None, d, m, Hl7DateTime, None) :
        h \in SoapHeaders, d \in {ShortDocument, LongDocument},
        m \in MimeTypes}

\* No prefix, and the registered prefixes.
AllPrefixes == <<"">> \o Prefixes

Qualified(prefix, uri) == [prefix |-> prefix, uri |-> uri]

\* Ways of writing the namespaces of a document: for every prefix of the
\* encoder the prefix written instead and the namespace it is bound to
\* (none when the uri is empty).  As the encoder writes them:
Canonical ==
    [p \in {AllPrefixes[i] : i \in 1..Len(AllPrefixes)} |->
        IF p = "" THEN Qualified("", <<>>) ELSE Qualified(p, SOAP_NS[p])]

\* No element in a namespace.
Unqualified == [p \in DOMAIN Canonical |-> Qualified("", <<>>)]

\* Every element in one default namespace.
DefaultNamespace ==
    [p \in DOMAIN Canonical |-> Qualified("", <<"urn:example:registry">>)]

\* Other prefixes bound to other namespaces.
OtherNamespaces ==
    [p \in DOMAIN Canonical |->
        IF p = "" THEN Qualified("", <<>>)
        ELSE Qualified("ns" \o p, <<"urn:example:", p>>)]

\* The registry elements in no namespace, the others as the encoder has them.
PartlyQualified ==
    [p \in DOMAIN Canonical |->
        IF p = "rim" THEN Qualified("", <<>>) ELSE Canonical[p]]

Qualifications ==
    {Canonical, Unqualified, DefaultNamespace, OtherNamespaces,
     PartlyQualified}

\* The document x with the namespaces of its element tags written the way
\* q says, declared on the root element; attributes and text as they were.
Requalified(x, q) ==
    LET P    == TagPrefixes(x)
        root == SetMin({i \in 1..Len(x) : x[i].kind \in {"start", "empty"}})
        Declares(i) ==
            /\ AllPrefixes[i] \in P
            /\ q[AllPrefixes[i]].uri # <<>>
            /\ \A j \in 1..(i - 1) :
                   AllPrefixes[j] \in P
                       => q[AllPrefixes[j]].prefix # q[AllPrefixes[i]].prefix
        decls == Cat([i \in 1..Len(AllPrefixes) |->
                         IF Declares(i)
                         THEN <<<<XmlnsName(q[AllPrefixes[i]].prefix),
                                  q[AllPrefixes[i]].uri>>>>
                         ELSE <<>>])
    IN  [i \in 1..Len(x) |->
            IF x[i].tag = <<>> THEN x[i]
            ELSE [x[i] EXCEPT
                     !.tag = <<q[@[1]].prefix, @[2]>>,
                     !.attrib =
                         (IF i = root THEN decls ELSE <<>>)
                             \o SelectSeq(@, LAMBDA a :
                                               ~IsDeclaration(a[1], P))]]

DecodeInit ==
    /\ pc = "start"
    /\ obj \in DecodedInputs
    /\ xml = NoXml
    /\ response = NoResponse
    /\ DecodeIdle
    /\ UtilIdle
    /\ Hl7Idle

\* iti41_xml_to_json on the document build_iti41_ebxml returned, with the
\* namespaces of its tags written in one of the ways.
Iti41XmlToJson ==
    /\ pc = "ebxml"
    /\ \E q \in Qualifications : xml_in' = Requalified(xml.xml, q)
    /\ json' = iti41_xml_to_json(xml_in')
    /\ pc' = IF json'.ok THEN "iti41_json" ELSE "iti41_json_error"
    /\ UNCHANGED <<s, out, HL7APY_AVAILABLE, payload, hl7, hl7apy_log, parsed,
                   obj, xml, response>>

DecodeNext == BuildIti41Ebxml \/ Iti41XmlToJson

SpecDecode == DecodeInit /\ [][DecodeNext]_vars

(***************************************************************************)
(* Properties of the utility functions (SpecUtil)                          *)
(***************************************************************************)
\* YYYY-MM-DD, alone or followed by 'T' and a time.
IsIsoDateOrDateTime(v) ==
    /\ Len(v) >= 10
    /\ AllDigits(SubSeq(v, 1, 4)) /\ v[5] = "-"
    /\ AllDigits(SubSeq(v, 6, 7)) /\ v[8] = "-"
    /\ AllDigits(SubSeq(v, 9, 10))
    /\ Len(v) > 10 => v[11] = "T"

\* C5: normalize_dob maps an ISO 8601 date or date-time YYYY-MM-DD[T...] to
\* the eight digits YYYYMMDD, leaves an eight-digit date unchanged and passes
\* an empty or absent value through.
C5_NormalizeDobGivesEightDigits ==
    pc = "normalize_dob" =>
        /\ (s # None /\ IsIsoDateOrDateTime(s)) =>
               out = SubSeq(s, 1, 4) \o SubSeq(s, 6, 7) \o SubSeq(s, 9, 10)
        /\ (s # None /\ Len(s) = 8 /\ AllDigits(s)) => out = s
        /\ ~Truthy(s) => out = s

Reserved == {"|", "^", "&", "~"}

\* The escape sequence of each reserved character.
EscapeOf(c) ==
    CASE c = "|" -> <<"\\", "F", "\\">>
      [] c = "^" -> <<"\\", "S", "\\">>
      [] c = "&" -> <<"\\", "T", "\\">>
      [] c = "~" -> <<"\\", "R", "\\">>

\* Every reserved character of v replaced at once.
EscapedAtOnce(v) ==
    Cat([i \in 1..Len(v) |->
            IF v[i] \in Reserved THEN EscapeOf(v[i]) ELSE <<v[i]>>])

\* The four replacements applied one after the other in a given order.
RECURSIVE EscapedInOrder(_, _)
EscapedInOrder(v, order) ==
    IF order = <<>> THEN v
    ELSE EscapedInOrder(Replace(v, Head(order), EscapeOf(Head(order))),
                        Tail(order))

ReplacementOrders ==
    {o \in [1..4 -> Reserved] : \A i, j \in 1..4 : o[i] = o[j] => i = j}

\* C8: escape_hl7_field replaces each reserved character by its escape
\* sequence, whatever the order of the four replacements; its output holds
\* no reserved character, so it adds no field to a segment it is put in; an
\* absent or empty value gives the empty text.
C8_EscapeIsOrderFreeAndSafe ==
    pc = "escape_hl7_field" =>
        /\ s # None => out = EscapedAtOnce(s)
        /\ s # None => \A o \in ReplacementOrders : EscapedInOrder(s, o) = out
        /\ \A i \in 1..Len(out) : out[i] \notin Reserved
        /\ Len(Split(<<"AL1", "|", "x", "|">> \o out \o <<"|", "y">>, "|")) = 4
        /\ ~Truthy(s) => out = <<>>

C8_EscapedAllReserved ==
    /\ pc = "escape_hl7_field"
    /\ s = AllReserved
    /\ out = <<"a", "\\", "F", "\\", "\\", "S", "\\", "\\", "T", "\\",
               "\\", "R", "\\", "\\", "b">>

\* Whether ts_to_hl7 can parse the stamp as ISO 8601 ('Z' read as UTC).
ParsesAsIso(v) ==
    fromisoformat(Replace(v, "Z", <<"+", "0", "0", ":", "0", "0">>)).ok

\* v cut to n characters, or filled up to n characters.
TruncatedOrPadded(v, n, result) ==
    /\ Len(result) = n
    /\ IF Len(v) >= n THEN result = Take(v, n) ELSE Take(result, Len(v)) = v

\* C12: ts_to_hl7 returns the current UTC time for an absent or empty stamp,
\* the fourteen digits YYYYMMDDHHMMSS for a stamp that parses as ISO 8601,
\* and for any other stamp its digit characters truncated or padded to
\* fourteen characters.
C12_TsToHl7FourteenCharacters ==
    pc = "ts_to_hl7" =>
        IF ~Truthy(s) THEN \E t \in 0..MaxTick : out = UtcNow(t)
        ELSE IF ParsesAsIso(s) THEN Len(out) = 14 /\ AllDigits(out)
        ELSE TruncatedOrPadded(OnlyDigits(s), 14, out)

(***************************************************************************)
(* Properties of the HL7 codec (SpecHl7)                                   *)
(***************************************************************************)
\* The texts of a dict or of a model object.
TextsOf(d) == {d[k] : k \in DOMAIN d \ {"present"}}

IdentifierTexts(ids) ==
    UNION {{ids[i].id, ids[i].assigning_authority} : i \in 1..Len(ids)}

ListTexts(list) == UNION {TextsOf(list[i]) : i \in 1..Len(list)}

\* Every text value of a request.
PayloadTexts(p) ==
    TextsOf(p.header)
        \cup IdentifierTexts(p.patient.identifiers)
        \cup TextsOf([p.patient EXCEPT !.identifiers = <<>>])
        \cup (IF p.pd1.present
              THEN {p.pd1.vip_indicator}
                       \cup IdentifierTexts(p.pd1.prior_patient_ids)
              ELSE {})
        \cup (IF p.visit.present THEN TextsOf(p.visit) ELSE {})
        \cup TextsOf(p.mrg)
        \cup ListTexts(p.al1) \cup ListTexts(p.dg1) \cup ListTexts(p.pr1)
        \cup ListTexts(p.nk1) \cup ListTexts(p.gt1) \cup ListTexts(p.in1)

HasChar(v, c) == \E i \in 1..Len(v) : v[i] = c

CrFree(p) == \A v \in PayloadTexts(p) : ~HasChar(v, "\r")

\* C1: for a request with a visit, no value of which holds a '|' or a
\* carriage return, decoding the encoded message gives
\* visit.attending_doctor equal to the composite id^family^given and
\* visit.visit_number equal to the input visit number: the encoder writes
\* both where the parser reads them, fields 8 and 19 of PV1.
C1_Pv1RoundTrip ==
    (/\ pc = "json"
     /\ payload.visit.present
     /\ CrFree(payload)
     /\ \A v \in TextsOf(payload.visit) : ~HasChar(v, "|")) =>
        /\ parsed.ok
        /\ parsed.result.visit.attending_doctor = AttendDoc(payload.visit)
        /\ parsed.result.visit.visit_number
               = OrElse(payload.visit.visit_number, <<>>)

\* C4: when the first identifier of the patient is under the health-ID OID,
\* the patient identifier the parser returns for the encoded message is the
\* identifier's id.
C4_IdentifierRoundTrip ==
    (/\ pc = "json"
     /\ Len(payload.patient.identifiers) > 0
     /\ payload.patient.identifiers[1].assigning_authority
            = ASSIGNING_AUTHORITY_HEALTH_ID) =>
        /\ parsed.ok
        /\ parsed.result.patient.identifiers
               = <<payload.patient.identifiers[1].id>>

\* The names of the carriage-return-separated segments of a message.
SegmentsOf(text) == Split(text, "\r")

SegmentNames(text) ==
    [i \in 1..Len(SegmentsOf(text)) |-> Head(Split(SegmentsOf(text)[i], "|"))]

Repeat(name, n) == [i \in 1..n |-> name]

\* The segment names the fixed order gives for a request.
ExpectedNames(p) ==
    Cat(<<<<<<"MSH">>, <<"EVN">>, <<"PID">>>>,
          IF p.pd1.present THEN <<<<"PD1">>>> ELSE <<>>,
          IF p.visit.present THEN <<<<"PV1">>, <<"PV2">>>> ELSE <<>>,
          IF DOMAIN p.mrg # {} THEN <<<<"MRG">>>> ELSE <<>>,
          Repeat(<<"AL1">>, Len(p.al1)), Repeat(<<"DG1">>, Len(p.dg1)),
          Repeat(<<"PR1">>, Len(p.pr1)), Repeat(<<"NK1">>, Len(p.nk1)),
          Repeat(<<"GT1">>, Len(p.gt1)), Repeat(<<"IN1">>, Len(p.in1))>>)

\* Where the first list segment goes, and the text that tells the k-th
\* entry of each list from the others.
ListStart(p) ==
    3 + (IF p.pd1.present THEN 1 ELSE 0) + (IF p.visit.present THEN 2 ELSE 0)
      + (IF DOMAIN p.mrg # {} THEN 1 ELSE 0)

EntryMarks(p) ==
    Cat(<<[k \in 1..Len(p.al1) |-> escape_hl7_field(p.al1[k].allergen)],
          [k \in 1..Len(p.dg1) |-> escape_hl7_field(p.dg1[k].diagnosis_desc)],
          [k \in 1..Len(p.pr1) |-> escape_hl7_field(p.pr1[k].procedure_desc)],
          [k \in 1..Len(p.nk1) |-> escape_hl7_field(p.nk1[k].name)],
          [k \in 1..Len(p.gt1) |-> escape_hl7_field(p.gt1[k].guarantor_name)],
          [k \in 1..Len(p.in1) |-> escape_hl7_field(p.in1[k].insurance_plan_id)]>>)

InFixedOrder(p, text) ==
    /\ SegmentNames(text) = ExpectedNames(p)
    /\ \A k \in 1..Len(EntryMarks(p)) :
          Contains(SegmentsOf(text)[ListStart(p) + k], EntryMarks(p)[k])

\* C6 as stated: the segments of every message the encoder produces are in
\* the fixed order MSH, EVN, PID, [PD1], [PV1, PV2], [MRG], AL1*, DG1*, PR1*,
\* NK1*, GT1*, IN1*, one segment per list entry in input order.
C6_SegmentOrderAnyInput ==
    pc \in {"hl7", "json"} => InFixedOrder(payload, hl7.text)

\* C6, amended: the same, for a request none of whose values holds a
\* carriage return.
C6_SegmentOrder ==
    (pc \in {"hl7", "json"} /\ CrFree(payload)) =>
        InFixedOrder(payload, hl7.text)

C6_AllSegmentKinds ==
    /\ pc = "hl7"
    /\ CrFree(payload)
    /\ payload.pd1.present /\ payload.visit.present
    /\ DOMAIN payload.mrg # {}
    /\ Len(payload.al1) = 1 /\ Len(payload.in1) = 1
    /\ SegmentNames(hl7.text)
           = <<<<"MSH">>, <<"EVN">>, <<"PID">>, <<"PD1">>, <<"PV1">>,
               <<"PV2">>, <<"MRG">>, <<"AL1">>, <<"IN1">>>>

\* C7: the encoder ends in an error and returns no text whenever the first
\* identifier's authority differs from the health-ID OID, whatever the later
\* identifiers are; when it equals the OID the PID segment's third field is
\* <id>^^^<OID>^ISO of the first identifier.
C7_FirstIdentifierDecides ==
    (pc \in {"hl7", "hl7_error", "json"}
        /\ Len(payload.patient.identifiers) > 0) =>
        IF payload.patient.identifiers[1].assigning_authority
               # ASSIGNING_AUTHORITY_HEALTH_ID
        THEN pc = "hl7_error" /\ ~hl7.ok /\ hl7.text = <<>>
        ELSE /\ hl7.ok
             /\ Contains(hl7.text,
                    Cat(<<<<"\r", "PID", "|", "1", "|", "|">>,
                          payload.patient.identifiers[1].id,
                          <<"^", "^", "^">>, ASSIGNING_AUTHORITY_HEALTH_ID,
                          <<"^", "ISO", "|", "|">>>>))

C7_RejectedDespiteLaterHealthId ==
    /\ pc = "hl7_error"
    /\ Len(payload.patient.identifiers) = 2
    /\ payload.patient.identifiers[2].assigning_authority
           = ASSIGNING_AUTHORITY_HEALTH_ID
    /\ hl7.text = <<>>

\* No value of the request holds a field separator or a carriage return.
BarAndCrFree(p) ==
    \A v \in PayloadTexts(p) : ~HasChar(v, "|") /\ ~HasChar(v, "\r")

\* What the encoder writes for a value it escapes, and for one it does not.
Escaped(v) == escape_hl7_field(OrElse(v, <<>>))
Plain(v) == OrElse(v, <<>>)

\* Some reading of the clock, for the time stamp of a request without one.
StampOf(ts, written) ==
    \E t \in 0..MaxTick : written = ts_to_hl7(ts, UtcNow(t))

\* The decoded header and patient hold what the encoder wrote for MSH, EVN
\* and PID (the name, the date of birth and the sex).
HeaderAndPatientAgree(p, r) ==
    /\ r.header.sending_app_oid = Plain(p.header.sending_app_oid)
    /\ r.header.sending_facility = Plain(p.header.sending_facility)
    /\ r.header.receiving_app = Plain(p.header.receiving_app)
    /\ r.header.receiving_facility = Plain(p.header.receiving_facility)
    /\ StampOf(p.header.message_datetime, r.header.message_datetime)
    /\ r.header.event = p.header.event /\ r.header.event # <<>>
    /\ r.header.message_control_id
           = OrElse(p.header.message_control_id, Uuid4(1))
    /\ r.header.version = OrElse(p.header.version, HL7_VERSION)
    /\ r.header.evn = EvnCode(p.header.event)
    /\ StampOf(p.header.message_datetime, r.header.evn_datetime)
    /\ r.patient.name
           = (IF \/ Truthy(p.patient.name_family)
                 \/ Truthy(p.patient.name_given)
                 \/ Truthy(p.patient.middle_name)
              THEN Cat(<<Escaped(p.patient.name_family), <<"^">>,
                         Escaped(p.patient.name_given), <<"^">>,
                         Escaped(p.patient.middle_name)>>)
              ELSE <<>>)
    /\ r.patient.dob = Plain(p.patient.dob)
    /\ r.patient.sex = Plain(p.patient.sex)

\* The same for PD1, PV2 and MRG, each decoded only when it was written.
SingleSegmentsAgree(p, r) ==
    /\ IF p.pd1.present
       THEN /\ r.pd1.vip = Plain(p.pd1.vip_indicator)
            /\ r.pd1.prior_ids
                   = Join([i \in 1..Len(p.pd1.prior_patient_ids) |->
                              Cat(<<p.pd1.prior_patient_ids[i].id,
                                    <<"^", "^", "^">>,
                                    p.pd1.prior_patient_ids[i].assigning_authority,
                                    <<"^", "ISO">>>>)], "~")
       ELSE r.pd1 = NoDict
    /\ IF p.visit.present
       THEN /\ r.visit.admit = TsOrEmpty(p.visit.admit_datetime)
            /\ r.visit.discharge = TsOrEmpty(p.visit.discharge_datetime)
       ELSE r.visit = NoDict
    /\ IF DOMAIN p.mrg # {}
       THEN /\ r.mrg.prior_patient_id = Get(p.mrg, "prior_patient_id", <<>>)
            /\ r.mrg.prior_visit = Get(p.mrg, "prior_visit_number", <<>>)
       ELSE r.mrg = NoDict

\* The decoded list under a key; nk1, gt1 and in1 are missing from the
\* result when no such segment was read.
ListOf(r, key) == IF key \in DOMAIN r THEN r[key] ELSE <<>>

\* The same for the lists: as many entries as the request has, in its order.
ListsAgree(p, r) ==
    /\ Len(r.al1) = Len(p.al1)
    /\ \A k \in 1..Len(p.al1) :
          /\ r.al1[k].allergen = Escaped(Get(p.al1[k], "allergen", <<>>))
          /\ r.al1[k].reaction = Escaped(Get(p.al1[k], "reaction", <<>>))
    /\ Len(r.dg1) = Len(p.dg1)
    /\ \A k \in 1..Len(p.dg1) :
          /\ r.dg1[k].code = Get(p.dg1[k], "diagnosis_code", <<>>)
          /\ r.dg1[k].desc = Escaped(Get(p.dg1[k], "diagnosis_desc", <<>>))
    /\ Len(r.pr1) = Len(p.pr1)
    /\ \A k \in 1..Len(p.pr1) :
          /\ r.pr1[k].code = Get(p.pr1[k], "procedure_code", <<>>)
          /\ r.pr1[k].desc = Escaped(Get(p.pr1[k], "procedure_desc", <<>>))
    /\ Len(ListOf(r, "nk1")) = Len(p.nk1)
    /\ \A k \in 1..Len(p.nk1) :
          /\ r.nk1[k].name = Escaped(p.nk1[k].name)
          /\ r.nk1[k].relationship = Escaped(p.nk1[k].relationship)
          /\ r.nk1[k].phone_number = Escaped(p.nk1[k].phone_number)
    /\ Len(ListOf(r, "gt1")) = Len(p.gt1)
    /\ \A k \in 1..Len(p.gt1) :
          /\ r.gt1[k].guarantor_number = Escaped(p.gt1[k].guarantor_number)
          /\ r.gt1[k].guarantor_name = Escaped(p.gt1[k].guarantor_name)
          /\ r.gt1[k].guarantor_address = Escaped(p.gt1[k].guarantor_address)
          /\ r.gt1[k].guarantor_phone = Escaped(p.gt1[k].guarantor_phone)
    /\ Len(ListOf(r, "in1")) = Len(p.in1)
    /\ \A k \in 1..Len(p.in1) :
          /\ r.in1[k].insurance_plan_id = Escaped(p.in1[k].insurance_plan_id)
          /\ r.in1[k].insurance_company_id
                 = Escaped(p.in1[k].insurance_company_id)
          /\ r.in1[k].insurance_company_name
                 = Escaped(p.in1[k].insurance_company_name)
          /\ r.in1[k].insured_id = Escaped(p.in1[k].insured_id)
          /\ r.in1[k].insured_name = Escaped(p.in1[k].insured_name)

\* C13: for a request the encoder accepts, no value of which holds a '|' or
\* a carriage return, decoding the encoded message gives under every key the
\* parser fills from MSH, EVN, PID (name, dob, sex), PD1, PV2, MRG, AL1, DG1,
\* PR1, NK1, GT1 and IN1 the text the encoder wrote for that field, the
\* header's event being the request's, and every list has the request's
\* number of entries in the request's order.
C13_RoundTripOutsidePv1 ==
    (pc = "json" /\ BarAndCrFree(payload)) =>
        /\ parsed.ok
        /\ HeaderAndPatientAgree(payload, parsed.result)
        /\ SingleSegmentsAgree(payload, parsed.result)
        /\ ListsAgree(payload, parsed.result)

C13_EverySegmentDecoded ==
    /\ pc = "json"
    /\ BarAndCrFree(payload)
    /\ payload.pd1.present /\ Len(payload.pd1.prior_patient_ids) = 2
    /\ payload.visit.present /\ payload.visit.admit_datetime # None
    /\ DOMAIN payload.mrg # {}
    /\ Len(payload.pr1) = 2
    /\ parsed.result.mrg.prior_visit = <<"OLDV">>
    /\ parsed.result.pr1[2].code = <<"P", "^", "9">>
    /\ parsed.result.pr1[2].desc = <<"x", "\\", "R", "\\", "y">>

\* The request with every value empty: the same segments are written for it
\* (the authority of an identifier, which build_pid checks, is kept).
BlankDict(d) == [k \in DOMAIN d |-> IF k = "present" THEN d[k] ELSE <<>>]

BlankIdentifiers(ids) ==
    [i \in 1..Len(ids) |-> [ids[i] EXCEPT !.id = <<>>]]

BlankList(list) == [i \in 1..Len(list) |-> BlankDict(list[i])]

Blanked(p) ==
    [present |-> TRUE,
     header |-> BlankDict(p.header),
     patient |-> [BlankDict(p.patient) EXCEPT
                     !.identifiers = BlankIdentifiers(p.patient.identifiers)],
     pd1 |-> IF p.pd1.present
             THEN [present |-> TRUE, vip_indicator |-> <<>>,
                   prior_patient_ids |->
                       BlankIdentifiers(p.pd1.prior_patient_ids)]
             ELSE p.pd1,
     visit |-> BlankDict(p.visit),
     mrg |-> BlankDict(p.mrg),
     al1 |-> BlankList(p.al1), dg1 |-> BlankList(p.dg1),
     pr1 |-> BlankList(p.pr1), nk1 |-> BlankList(p.nk1),
     gt1 |-> BlankList(p.gt1), in1 |-> BlankList(p.in1)]

\* The number of '|'-separated fields of each segment of a message.
FieldCounts(text) ==
    [i \in 1..Len(SegmentsOf(text)) |-> Len(Split(SegmentsOf(text)[i], "|"))]

\* C15: every value json_to_hl7_full puts into a segment goes through
\* escape_hl7_field, so each segment of the message has as many '|'-separated
\* fields as the same segment has for the request with every value empty: no
\* value adds a field.
C15_FieldCountsAsForEmptyValues ==
    pc \in {"hl7", "json"} =>
        FieldCounts(hl7.text)
            = FieldCounts(AssembledMessage(Blanked(payload), UtcNow(0),
                                           UtcNow(0), Uuid4(1)).text)

\* The fields of the k-th segment of a message.
FieldsOf(text, k) == Split(SegmentsOf(text)[k], "|")

\* The event code of an event: what follows its (last) '^', or all of it.
IsEventCode(code, event) ==
    IF HasChar(event, "^")
    THEN \E i \in 1..Len(event) :
            /\ event[i] = "^"
            /\ code = Drop(event, i)
            /\ ~HasChar(code, "^")
    ELSE code = event

\* C17: in every message json_to_hl7_full produces, the time stamp of the
\* EVN segment equals the time stamp of the MSH segment, also when the
\* request has none and the clock is read (and may have advanced from one
\* reading to the next); the EVN event code is what follows the '^' of the
\* header's event, or the whole event when it has none.
C17_EvnStampIsMshStamp ==
    pc \in {"hl7", "json"} =>
        /\ Head(FieldsOf(hl7.text, 1)) = <<"MSH">>
        /\ Head(FieldsOf(hl7.text, 2)) = <<"EVN">>
        /\ Field(FieldsOf(hl7.text, 2), 2) = Field(FieldsOf(hl7.text, 1), 6)
        /\ IsEventCode(Field(FieldsOf(hl7.text, 2), 1), payload.header.event)

\* C18: the conformance check is advisory: whether hl7apy is missing, parses
\* the message or raises on it, json_to_hl7_full returns the message it
\* assembled (or the error of the assembly), unchanged; a failed check turns
\* no message into an error.
C18_ConformanceCheckIsAdvisory ==
    pc \in {"hl7", "hl7_error", "json"} =>
        /\ \E t1 \in 0..MaxTick : \E t2 \in t1..MaxTick :
              hl7 = AssembledMessage(payload, UtcNow(t1), UtcNow(t2), Uuid4(1))
        /\ hl7apy_log \in {"none", "debug", "warning"}
        /\ hl7apy_log = "warning" => hl7.ok /\ hl7.text # <<>>
        /\ hl7.ok <=> ~PidAuthorityRejected(payload.patient)

C18_MessageDespiteWarning ==
    /\ pc = "hl7"
    /\ HL7APY_AVAILABLE
    /\ hl7apy_log = "warning"
    /\ hl7.ok
    /\ Head(FieldsOf(hl7.text, 1)) = <<"MSH">>

(***************************************************************************)
(* Properties of the HL7 parser (SpecParse)                                *)
(***************************************************************************)
\* C16: hl7_full_to_json returns a result for every message text, whatever
\* the segments, their order and their length, a PV2 with no PV1 before it
\* and segments of unknown names included.
C16_ParserIsTotal == pc = "hl7_full_to_json" => parsed.ok

(***************************************************************************)
(* Properties of the ITI-41 encoder (SpecIti)                              *)
(***************************************************************************)
\* The opening (or empty-element) tags with a local name.
Opens(x, local) ==
    {i \in 1..Len(x) : /\ x[i].kind \in {"start", "empty"}
                       /\ x[i].tag # <<>>
                       /\ x[i].tag[2] = local}

\* The end of the element that opens at i (i itself for an empty element).
EndOf(x, i) ==
    IF x[i].kind = "empty" THEN i
    ELSE SetMin({j \in (i + 1)..Len(x) :
                    x[j].kind = "end" /\ x[j].tag = x[i].tag})

\* The elements with a local name inside the element that opens at i.
Inside(x, i, local) == {k \in Opens(x, local) : i < k /\ k < EndOf(x, i)}

\* The value of an attribute as a parser reads it.
Attr(tok, name) ==
    LET hits == {k \in 1..Len(tok.attrib) : tok.attrib[k][1] = name}
    IN  IF hits = {} THEN None ELSE unescape(tok.attrib[SetMin(hits)][2])

The(S) == CHOOSE i \in S : TRUE

\* The Slot elements with a name inside the element that opens at i.
Slots(x, i, name) ==
    {k \in Inside(x, i, "Slot") : Attr(x[k], "name") = name}

\* The text of the first Value of the Slot that opens at k.
SlotValue(x, k) ==
    LET v == SetMin(Inside(x, k, "Value"))
    IN  IF x[v].kind = "empty" THEN <<>> ELSE unescape(x[v + 1].text)

\* The base64 text in the element that opens at i.
Base64In(x, i) ==
    IF x[i].kind = "start" /\ x[i + 1].kind = "base64" THEN x[i + 1].base64
    ELSE EmptyRun

HasMember == <<"urn:oasis:names:tc:ebxml-regrep:AssociationType:HasMember">>
Approved == <<"urn:oasis:names:tc:ebxml-regrep:StatusType:Approved">>

\* C9: the XML build_iti41_ebxml produces has exactly one RegistryPackage,
\* one ExtrinsicObject and one Association, all inside the
\* RegistryObjectList; the Association is a HasMember, Approved, from the
\* RegistryPackage's id to the ExtrinsicObject's id, and the two ids differ.
C9_OnePackageOneEntryOneAssociation ==
    pc = "ebxml" =>
        LET x == xml.xml
        IN  /\ Cardinality(Opens(x, "RegistryObjectList")) = 1
            /\ \A n \in {"RegistryPackage", "ExtrinsicObject", "Association"} :
                  /\ Cardinality(Opens(x, n)) = 1
                  /\ Opens(x, n)
                        = Inside(x, The(Opens(x, "RegistryObjectList")), n)
            /\ LET pkg   == x[The(Opens(x, "RegistryPackage"))]
                   ex    == x[The(Opens(x, "ExtrinsicObject"))]
                   assoc == x[The(Opens(x, "Association"))]
               IN  /\ Attr(assoc, "associationType") = HasMember
                   /\ Attr(assoc, "status") = Approved
                   /\ Attr(pkg, "id") # None
                   /\ Attr(ex, "id") # None
                   /\ Attr(assoc, "sourceObject") = Attr(pkg, "id")
                   /\ Attr(assoc, "targetObject") = Attr(ex, "id")
                   /\ Attr(pkg, "id") # Attr(ex, "id")

C9_BuiltWithEverything ==
    /\ pc = "ebxml"
    /\ obj.unique_id # None
    /\ HasDocument(obj)
    /\ Truthy(obj.class_code) /\ Truthy(obj.type_code)
    /\ Truthy(obj.source_id)
    /\ Cardinality(Opens(xml.xml, "Association")) = 1
    /\ Cardinality(Opens(xml.xml, "Classification")) = 2

\* The hash, size and formatCode slots of the ExtrinsicObject and the
\* Document element are in the XML when present is true and not otherwise.
DocumentParts(x, present) ==
    LET ex == The(Opens(x, "ExtrinsicObject"))
        n  == IF present THEN 1 ELSE 0
    IN  /\ \A name \in {<<"hash">>, <<"size">>, <<"formatCode">>} :
              /\ Cardinality(Slots(x, ex, name)) = n
              /\ Cardinality({k \in Opens(x, "Slot") :
                                 Attr(x[k], "name") = name}) = n
        /\ Cardinality(Opens(x, "Document")) = n
        /\ Opens(x, "Document")
              = Inside(x, The(Opens(x, "ProvideAndRegisterDocumentSetRequest")),
                       "Document")

\* The size and hash slots are the decimal length and the SHA-1 digest of
\* the bytes whose base64 is in the Document element, and those are the
\* decoded input, or its UTF-8 bytes if it does not decode.
SizeAndHashOfDocument(x, doc) ==
    LET ex      == The(Opens(x, "ExtrinsicObject"))
        content == b64decode(Base64In(x, The(Opens(x, "Document"))))
        decoded == b64decode(doc)
        input   == IF decoded.ok THEN decoded.bytes ELSE Utf8OfRun(doc)
    IN  /\ content.ok
        /\ SlotValue(x, The(Slots(x, ex, <<"size">>)))
              = Decimal(RunLen(content.bytes))
        /\ SlotValue(x, The(Slots(x, ex, <<"hash">>)))
              = Sha1Hex(content.bytes)
        /\ SameBytes(content.bytes) = SameBytes(input)

PdfFormat == <<"urn:ihe:iti:xds-sd:pdf:2008">>

FormatCodeOf(x) ==
    SlotValue(x, The(Slots(x, The(Opens(x, "ExtrinsicObject")),
                           <<"formatCode">>)))

\* C10 as stated: the hash, size and formatCode slots and the Document
\* element are there iff document bytes were supplied; then size and hash
\* are those of the bytes whose base64 is in the Document element, and
\* formatCode is the PDF one iff the mime type contains "pdf".
C10_DocumentSlotsPdfLiteral ==
    pc = "ebxml" =>
        /\ DocumentParts(xml.xml, HasDocument(obj))
        /\ HasDocument(obj) =>
              /\ SizeAndHashOfDocument(xml.xml, obj.document_base64)
              /\ FormatCodeOf(xml.xml) = PdfFormat
                    <=> /\ obj.mime_type # None
                        /\ Contains(obj.mime_type, <<"p", "d", "f">>)

\* C10, amended: the same, with formatCode the PDF one iff the mime type
\* contains "pdf" in any letter case.
C10_DocumentSlots ==
    pc = "ebxml" =>
        /\ DocumentParts(xml.xml, HasDocument(obj))
        /\ HasDocument(obj) =>
              /\ SizeAndHashOfDocument(xml.xml, obj.document_base64)
              /\ FormatCodeOf(xml.xml) = PdfFormat
                    <=> /\ obj.mime_type # None
                        /\ \E i \in 1..(Len(obj.mime_type) - 2) :
                              /\ obj.mime_type[i] \in {"p", "P"}
                              /\ obj.mime_type[i + 1] \in {"d", "D"}
                              /\ obj.mime_type[i + 2] \in {"f", "F"}

C10_UndecodableUpperCasePdf ==
    /\ pc = "ebxml"
    /\ HasDocument(obj)
    /\ ~b64decode(obj.document_base64).ok
    /\ RunLen(obj.document_base64) > 4
    /\ obj.mime_type = <<"application/", "P", "D", "F">>
    /\ FormatCodeOf(xml.xml) = PdfFormat
    /\ Cardinality(Opens(xml.xml, "Document")) = 1

\* The decoded length L of the request's document (0 without a document).
DecodedLength ==
    IF HasDocument(obj)
    THEN LET decoded == b64decode(obj.document_base64)
         IN  RunLen(IF decoded.ok THEN decoded.bytes
                    ELSE Utf8OfRun(obj.document_base64))
    ELSE 0

MultipartRelated ==
    <<"multipart/related; type=\"application/xop+xml\"; boundary=\"">>

C3_IncludeRefersToDocumentId ==
    (pc = "iti41" /\ response.kind = "multipart") =>
        LET root   == response.multipart.parts[1].xml
            doc_id == Attr(xml.xml[The(Opens(xml.xml, "ExtrinsicObject"))],
                           "id")
            cid    == doc_id \o <<"@example.com">>
        IN  /\ Cardinality(Opens(root, "Document")) = 1
            /\ \A i \in 1..Len(root) : root[i].kind # "base64"
            /\ LET d == The(Opens(root, "Document"))
               IN  /\ Attr(root[d], "id") = doc_id
                   /\ Inside(root, d, "Include") = {d + 1}
                   /\ root[d + 1].tag = <<"xop", "Include">>
                   /\ Attr(root[d + 1], "href") = <<"cid:">> \o cid
            /\ response.multipart.parts[2].name = cid

\* C14: when the source id is there and does not start with the national
\* organisation root, build_iti41_ebxml ends in an error (status 400) that
\* the endpoint passes on, and no XML is returned, inline or multipart, also
\* for a request whose source id no validator has seen; with no source id,
\* or one that starts with the root, there is no such error.
C14_ForeignSourceIdIsTerminal ==
    pc \in {"ebxml", "ebxml_error", "iti41"} =>
        IF /\ Truthy(obj.source_id)
           /\ SubSeq(obj.source_id, 1, Len(NATIONAL_ORG_ROOT)) # NATIONAL_ORG_ROOT
        THEN /\ ~xml.ok /\ xml.status = 400 /\ xml.xml = <<>>
             /\ pc # "ebxml"
             /\ pc = "iti41" =>
                    /\ response.kind = "error" /\ response.status = 400
                    /\ response.xml = <<>>
                    /\ response.multipart = NoMultipart
        ELSE /\ xml.ok /\ xml.xml # <<>>
             /\ pc # "ebxml_error"
             /\ pc = "iti41" => response.kind \in {"xml", "multipart"}

C14_LargeDocumentRefused ==
    /\ pc = "iti41"
    /\ obj.source_id = <<"urn:oid:">> \o NATIONAL_ORG_ROOT
    /\ HasDocument(obj) /\ obj.document_base64.reps = GroupsAtLimit + 1
    /\ response.kind = "error" /\ response.status = 400

\* The elements whose id build_iti41_ebxml generates: every
\* ExternalIdentifier, Classification and Association, and the
\* ExtrinsicObject of a request without a unique id.
GeneratedIds(x, o) ==
    Opens(x, "ExternalIdentifier") \cup Opens(x, "Classification")
        \cup Opens(x, "Association")
        \cup (IF Truthy(o.unique_id) THEN {} ELSE Opens(x, "ExtrinsicObject"))

\* C20: in every document build_iti41_ebxml produces, with or without a
\* unique id in the request, the uniqueId of the SubmissionSet (the value of
\* the RegistryPackage's ExternalIdentifier under the SubmissionSet scheme)
\* differs from the uniqueId of the DocumentEntry (the value of the first
\* ExternalIdentifier of the ExtrinsicObject), and every generated id is a
\* 'urn:uuid:' token different from every other generated id.
C20_SubmissionAndEntryUniqueIdsDiffer ==
    pc = "ebxml" =>
        LET x     == xml.xml
            pkg   == The(Opens(x, "RegistryPackage"))
            ex    == The(Opens(x, "ExtrinsicObject"))
            sub   == The({k \in Inside(x, pkg, "ExternalIdentifier") :
                            Attr(x[k], "identificationScheme")
                                = SUBMISSIONSET_UNIQUEID_SCHEME})
            entry == SetMin(Inside(x, ex, "ExternalIdentifier"))
        IN  /\ SlotValue(x, sub) # SlotValue(x, entry)
            /\ \A k \in GeneratedIds(x, obj) :
                  StartsWith(Attr(x[k], "id"), <<"urn:uuid:">>)
            /\ \A k, l \in GeneratedIds(x, obj) :
                  k # l => Attr(x[k], "id") # Attr(x[l], "id")

(***************************************************************************)
(* Properties of the ITI-41 decoder (SpecDecode)                           *)
(***************************************************************************)
Decoded == pc \in {"iti41_json", "iti41_json_error"}

\* C11: iti41_xml_to_json is namespace-agnostic: the document decoded and
\* the same document with the namespaces of its element tags written in
\* any other way (other prefixes, other URIs, a default namespace, none at
\* all, some elements qualified and some not) have the same flat result.
C11_DecodeIsNamespaceAgnostic ==
    Decoded =>
        \A q \in Qualifications :
            iti41_xml_to_json(Requalified(xml.xml, q)) = json

\* A document without any namespace was decoded to a result that has the
\* entry's id, its identifiers and a slot of an inline document.
C11_UnqualifiedDocumentDecoded ==
    /\ pc = "iti41_json"
    /\ xml_in = Requalified(xml.xml, Unqualified)
    /\ xml_in # xml.xml
    /\ \A i \in 1..Len(xml_in) :
           xml_in[i].tag # <<>> => xml_in[i].tag[1] = ""
    /\ <<"hash">> \in DOMAIN json.json
    /\ Len(json.json[<<"externalIdentifiers">>]) = 3
    /\ json.json[<<"document_id">>] = <<"doc", "&", "1">>

\* The keys of the slots the encoder gives the ExtrinsicObject of a request.
SlotKeys(o) ==
    {<<"creationTime">>}
        \cup (IF HasDocument(o)
              THEN {<<"hash">>, <<"size">>, <<"formatCode">>} ELSE {})
        \cup (IF Truthy(o.practice_setting_code)
              THEN {<<"practiceSettingCode">>} ELSE {})
        \cup (IF Truthy(o.repository_unique_id)
              THEN {<<"repositoryUniqueID">>} ELSE {})

\* A time of the request, or a reading of the clock when it has none.
IsTimeOf(o, v) ==
    IF Truthy(o.creation_time) THEN v = o.creation_time
    ELSE \E t \in 0..MaxTick : v = UtcNow(t)

\* The flat result j is the one of the document encoded from the request o.
DecodesRequest(o, j) ==
    LET doc_id == OrElse(o.unique_id, UrnUuid(4))
    IN  /\ DOMAIN j = {<<"document_id">>, <<"mimeType">>, <<"objectType">>,
                       <<"externalIdentifiers">>, <<"submissionTime">>}
                          \cup SlotKeys(o)
        /\ j[<<"document_id">>] = doc_id
        /\ j[<<"mimeType">>] = OrElse(o.mime_type, <<"text/xml">>)
        /\ j[<<"objectType">>] = OrElse(o.object_type, OBJECTTYPE_ONDEMAND)
        /\ j[<<"externalIdentifiers">>] =
               <<doc_id, o.patient_id>>
                   \o (IF Truthy(o.source_id) THEN <<o.source_id>> ELSE <<>>)
        /\ IsTimeOf(o, j[<<"creationTime">>])
        /\ IsTimeOf(o, j[<<"submissionTime">>])
        /\ HasDocument(o) =>
               LET hs == sha1_and_size(DocBytes(o.document_base64))
               IN  /\ j[<<"hash">>] = hs.h
                   /\ j[<<"size">>] = hs.size
                   /\ j[<<"formatCode">>] = FormatCode(o.mime_type)
        /\ Truthy(o.practice_setting_code) =>
               j[<<"practiceSettingCode">>] = o.practice_setting_code
        /\ Truthy(o.repository_unique_id) =>
               j[<<"repositoryUniqueID">>] = o.repository_unique_id

\* C19: decoding the document build_iti41_ebxml returned for a request
\* returns a result, with document_id the id of the ExtrinsicObject,
\* mimeType and objectType the encoded attributes (text/xml and the
\* on-demand type by default), externalIdentifiers the list of the document
\* unique id, the patient id and the source id if there is one, one key for
\* every slot of the ExtrinsicObject with its value, and the submissionTime
\* of the RegistryPackage.
C19_DecodeOfEncodedRequest ==
    (Decoded /\ xml_in = xml.xml) =>
        json.ok /\ DecodesRequest(obj, json.json)

====
